---- MODULE Spec2Model ----
(***************************************************************************)
(* Verification model of the metadata aggregation core of terex-movie:     *)
(* MetadataService (src/lib/metadata/tmpdb-adapter.ts, lines 172-599) and   *)
(* the adapters it drives through the MetadataSource interface.            *)
(*                                                                         *)
(* Three specifications share the variables below:                          *)
(*   Spec / FairSpec  concurrent callers and the memoized initialization    *)
(*   OpSpec           one call chain through the four public operations     *)
(*   MergeSpec        mergeMetadata applied to bounded records              *)
(***************************************************************************)
EXTENDS Integers, Sequences, FiniteSets, TLC

(***************************************************************************)
(* Bounds of the model.                                                    *)
(***************************************************************************)
\* how many adapters of the registry (in registration order) are instantiated
NumSources == 3
\* how many concurrent callers the initialization model has
NumCallers == 2
\* longest collection (videos, cast, ...) a generated record holds
MaxLen == 2
\* how many times in a row mergeMetadata is applied to one target
MaxMerges == 2
\* how many times in a row sanitizeMetadata is applied to one record
MaxSanitize == 2
\* how many operations in a row the override store sees
MaxStoreOps == 3
\* the largest absolute value of an identifier given to the MovieLens adapter
MaxTmdbId == 60

(***************************************************************************)
(* The adapter registry.                                                   *)
(***************************************************************************)
\* constructor: the adapters in the order they are listed
Registration ==
    <<"CustomDB", "TMDB", "OMDB", "MovieLens", "TMPDB", "YouTube", "Wikidata", "OpenMedia">>

\* the `priority` field of each adapter class
Priority(name) ==
    CASE name = "CustomDB"  -> 0
      [] name = "TMDB"      -> 1
      [] name = "OMDB"      -> 2
      [] name = "MovieLens" -> 3
      [] name = "TMPDB"     -> 4
      [] name = "YouTube"   -> 5
      [] name = "Wikidata"  -> 6
      [] name = "OpenMedia" -> 7

Min(a, b) == IF a < b THEN a ELSE b

\* the elements of a sequence
Range(seq) == {seq[i] : i \in 1..Len(seq)}

\* stable insertion of one adapter into a list sorted by priority
RECURSIVE InsertByPriority(_, _)
InsertByPriority(name, seq) ==
    IF seq = <<>> THEN <<name>>
    ELSE IF Priority(name) < Priority(Head(seq)) THEN <<name>> \o seq
         ELSE <<Head(seq)>> \o InsertByPriority(name, Tail(seq))

\* this.sources.sort((a, b) => a.priority - b.priority): stable, ascending
RECURSIVE SortByPriority(_)
SortByPriority(seq) ==
    IF seq = <<>> THEN <<>>
    ELSE InsertByPriority(seq[Len(seq)], SortByPriority(SubSeq(seq, 1, Len(seq) - 1)))

\* this.sources after the constructor
sources == SortByPriority(SubSeq(Registration, 1, Min(NumSources, Len(Registration))))

SourceNames == Range(sources)

Callers == 1..NumCallers

\* what a call of source.isAvailable() can settle to through the MetadataSource
\* interface: fulfilled with true or false, or rejected
ProbeOutcomes == {"true", "false", "threw"}

\* the public operations that go through initialize()/ensureInitialized()
InitOps ==
    {"initialize", "getMovieMetadata", "searchMovies", "searchMoviesWithUpcoming",
     "getEnhancedMetadata"}

VARIABLES
    initialized,            \* MetadataService.initialized
    initializationPromise,  \* "null", "pending" or "fulfilled" ("rejected" if it could)
    availableSources,       \* MetadataService.availableSources
    probe,                  \* per adapter: the isAvailable() call of the probe round
    probeCalls,             \* per adapter: how often isAvailable() was invoked
    pc,                     \* per caller: where its call chain stands
    callOp,                 \* per caller: the operation it is in
    mTarget,                \* mergeMetadata: the target record
    mSource,                \* mergeMetadata: the source record
    mBefore,                \* the target as it was before the latest merge
    mOnce,                  \* the target as it was after the first merge
    merges,                 \* how many merges have been applied
    op,                     \* the public operation of the call chain in progress
    opc,                    \* where that operation stands
    idx,                    \* the index of its loop
    query,                  \* the query of a search
    fetchOracle,            \* per adapter: what its getMovieMetadata answers for the id
    metadata,               \* getMovieMetadata: the adapter whose record was found, or null
    fetchLog,               \* the adapters whose getMovieMetadata the fetch loop called
    searchLog,              \* the adapters whose searchMovies was called, with the outcome
    searchResults,          \* the value of searchMovies
    secLog,                 \* getEnhancedMetadata: the secondary adapters called
    upcomingLog,            \* searchMoviesWithUpcoming: what getUpcomingMovies settled to
    merged,                 \* getEnhancedMetadata: the adapters whose record was merged
    result,                 \* what the operation returned
    sIn,                    \* sanitizeMetadata: the record first given
    sCur,                   \* sanitizeMetadata: the record at hand
    sOnce,                  \* the record after the first sanitizeMetadata
    sCalls,                 \* how many times sanitizeMetadata has been applied
    sArg,                   \* the object passed to the latest call, as it is after the call
    customMovies,           \* CustomDatabaseAdapter.customMovies: own key -> record
    keyOrder,               \* the insertion order of its own keys
    heap,                   \* the arrays the records' collection fields refer to
    handed,                 \* the record getMovieMetadata last handed to a caller
    handedSnap,             \* its field values when it was handed over
    prevStore,              \* the contents of the store before the last write
    written,                \* the contents of the store after the last write
    lastOp,                 \* the last operation on the store and what it returned
    hits,                   \* what the last search of the store returned
    storeOps,               \* how many operations the store has seen
    mlId,                   \* MovieLensAdapter: the identifier after Number.parseInt
    mlVote,                 \* the vote_average of the provider's answer, in tenths
    mlRating,               \* the rating put in the record, in tenths
    mlRated,                \* whether the record has been built
    envSet,                 \* the environment variables that are set
    aName,                  \* the adapter called
    aOp,                    \* the operation called on it
    storeTitled,            \* whether every stored override record has a title
    aPc,                    \* where the adapter call stands
    fetchIdx,               \* which fetch of the call is in flight
    netCalls,               \* how many fetches the call has issued
    silent,                 \* whether the provider never answers the fetch in flight
    aResult,                \* what the adapter call settled to
    eAvail,                 \* getEnhancedMetadata with records: this.availableSources
    eId,                    \* the identifier the caller passed
    eRaw,                   \* the record the primary adapter returned
    ePrimary,               \* primaryMetadata
    eEnhanced,              \* enhancedMetadata
    eIdx,                   \* position in secondarySources
    eLog,                   \* the secondary adapters queried, with identifier and answer
    ePc,                    \* where the call stands
    eResult                 \* what the call returned

svcVars == <<initialized, initializationPromise, availableSources, probe, probeCalls>>
callerVars == <<pc, callOp>>
mergeVars == <<mTarget, mSource, mBefore, mOnce, merges>>
opVars ==
    <<op, opc, idx, query, fetchOracle, metadata, fetchLog, searchLog, searchResults, secLog, upcomingLog,
      merged, result>>
sanVars == <<sIn, sCur, sOnce, sCalls, sArg>>
storeVars ==
    <<customMovies, keyOrder, heap, handed, handedSnap, prevStore, written, lastOp, hits,
      storeOps>>
rateVars == <<mlId, mlVote, mlRating, mlRated>>
netVars == <<envSet, aName, aOp, storeTitled, aPc, fetchIdx, netCalls, silent, aResult>>
enhVars == <<eAvail, eId, eRaw, ePrimary, eEnhanced, eIdx, eLog, ePc, eResult>>
otherVars == <<sanVars, storeVars, rateVars, netVars, enhVars>>
vars ==
    <<initialized, initializationPromise, availableSources, probe, probeCalls, pc, callOp,
      mTarget, mSource, mBefore, mOnce, merges,
      op, opc, idx, query, fetchOracle, metadata, fetchLog, searchLog, searchResults, secLog, upcomingLog,
      merged, result, sIn, sCur, sOnce, sCalls, sArg,
      customMovies, keyOrder, heap, handed, handedSnap, prevStore, written, lastOp, hits,
      storeOps, mlId, mlVote, mlRating, mlRated,
      envSet, aName, aOp, storeTitled, aPc, fetchIdx, netCalls, silent, aResult,
      eAvail, eId, eRaw, ePrimary, eEnhanced, eIdx, eLog, ePc, eResult>>

(***************************************************************************)
(* _initialize: aggregation of the probe round.                            *)
(***************************************************************************)
\* the callback of sources.map: a rejected isAvailable() is caught and counts as
\* { isAvailable: false }
ProbeVerdict(outcome) == outcome = "true"

\* lines 237-239: the adapters whose probe was fulfilled with a truthy isAvailable,
\* in the order of this.sources
ProbedAvailable(outcomes) ==
    SelectSeq(sources, LAMBDA s : ProbeVerdict(outcomes[s]))

\* lines 241-251: TMDB and CustomDB are pushed to the end when missing
ensureSources == <<"TMDB", "CustomDB">>

\* variant: the fallback loop of lines 242-251 left out
ForceInclude_Skipped(avail, names) == avail

RECURSIVE ForceInclude(_, _)
ForceInclude(avail, names) ==
    IF names = <<>> THEN avail
    ELSE LET sourceName == Head(names)
             found == SelectSeq(sources, LAMBDA s : s = sourceName)
         IN  IF sourceName \notin Range(avail) /\ found # <<>>
             THEN ForceInclude(Append(avail, Head(found)), Tail(names))
             ELSE ForceInclude(avail, Tail(names))

\* the try branch of _initialize after the await
AggregateAvailable(outcomes) == ForceInclude(ProbedAvailable(outcomes), ensureSources)

\* the catch branch of _initialize, lines 261-276
CatchFallback ==
    LET fallback == SelectSeq(sources, LAMBDA s : s = "TMDB" \/ s = "CustomDB")
    IN  IF Len(fallback) = 0 THEN <<sources[1]>> ELSE fallback

\* variant: the round resolves with the first probe that settles (Promise.race)
AllSettled_Race(p) == \E s \in SourceNames : p[s] \in ProbeOutcomes

\* Promise.allSettled resolves once every probe has settled
AllSettled(p) == \A s \in SourceNames : p[s] \in ProbeOutcomes

\* variant: initialize() without the check of initializationPromise
StartsRound_NoMemo == ~initialized

\* the promise of _initialize: its catch branch returns normally, so the promise is
\* fulfilled whether or not the try branch raised
InitializePromise(raised) == "fulfilled"

\* initialize(), lines 202-208: a new round is started only when the service is
\* neither initialized nor has an initialization promise
StartsRound == ~initialized /\ initializationPromise = "null"

(***************************************************************************)
(* The state of one call chain between operations, and what an operation   *)
(* gives back.                                                             *)
(***************************************************************************)
\* let metadata: MovieMetadata | null = null, line 289
NullMetadata == "<null>"

\* what an operation returns (or raises)
PendingResult == [k |-> "pending", from |-> "", merged |-> <<>>, list |-> <<>>]
AbsentResult == [k |-> "absent", from |-> "", merged |-> <<>>, list |-> <<>>]
RaisedResult == [k |-> "raise", from |-> "", merged |-> <<>>, list |-> <<>>]
RecordResult(from, mergedNames) ==
    [k |-> "record", from |-> from, merged |-> mergedNames, list |-> <<>>]
ListResult(list) == [k |-> "list", from |-> "", merged |-> <<>>, list |-> list]

\* no operation in progress
OpIdle ==
    /\ op = "none"
    /\ opc = "idle"
    /\ idx = 0
    /\ query = ""
    /\ fetchOracle = [s \in SourceNames |-> "absent"]
    /\ metadata = NullMetadata
    /\ fetchLog = <<>>
    /\ searchLog = <<>>
    /\ searchResults = <<>>
    /\ secLog = <<>>
    /\ upcomingLog = <<>>
    /\ merged = <<>>
    /\ result = PendingResult

\* the variables of the specifications of single components, not in use
SanIdle == sIn = <<>> /\ sCur = <<>> /\ sOnce = <<>> /\ sCalls = 0 /\ sArg = <<>>

StoreIdle ==
    /\ customMovies = <<>>
    /\ keyOrder = <<>>
    /\ heap = <<>>
    /\ handed = [k |-> "none"]
    /\ handedSnap = [k |-> "none"]
    /\ prevStore = <<>>
    /\ written = <<>>
    /\ lastOp = [op |-> "none", id |-> "", ret |-> FALSE]
    /\ hits = <<>>
    /\ storeOps = 0

RateIdle == mlId = 0 /\ mlVote = 0 /\ mlRating = 0 /\ mlRated = FALSE

NetIdle ==
    /\ envSet = {}
    /\ aName = ""
    /\ aOp = ""
    /\ storeTitled = TRUE
    /\ aPc = "idle"
    /\ fetchIdx = 0
    /\ netCalls = 0
    /\ silent = FALSE
    /\ aResult = ""

\* no getEnhancedMetadata call with records in progress
EnhIdle ==
    /\ eAvail = <<>>
    /\ eId = ""
    /\ eRaw = <<>>
    /\ ePrimary = <<>>
    /\ eEnhanced = <<>>
    /\ eIdx = 0
    /\ eLog = <<>>
    /\ ePc = "idle"
    /\ eResult = <<>>

OtherIdle == SanIdle /\ StoreIdle /\ RateIdle /\ NetIdle /\ EnhIdle

(***************************************************************************)
(* Spec: callers and the initialization round.                             *)
(***************************************************************************)
Init ==
    /\ initialized = FALSE
    /\ initializationPromise = "null"
    /\ availableSources = <<>>
    /\ probe = [s \in SourceNames |-> "idle"]
    /\ probeCalls = [s \in SourceNames |-> 0]
    /\ pc = [c \in Callers |-> "idle"]
    /\ callOp = [c \in Callers |-> "none"]
    /\ mTarget = <<>> /\ mSource = <<>> /\ mBefore = <<>> /\ mOnce = <<>> /\ merges = 0
    /\ OpIdle
    /\ OtherIdle

\* a caller enters initialize() (directly or through ensureInitialized) and starts
\* the round: _initialize runs up to its await, which invokes every isAvailable()
CallStartsRound(c, o) ==
    /\ pc[c] = "idle"
    /\ ~initialized
    /\ StartsRound
    /\ \A s \in SourceNames : probeCalls[s] < 3
    /\ initializationPromise' = "pending"
    /\ probe' = [s \in SourceNames |-> "pending"]
    /\ probeCalls' = [s \in SourceNames |-> probeCalls[s] + 1]
    /\ pc' = [pc EXCEPT ![c] = "awaitInit"]
    /\ callOp' = [callOp EXCEPT ![c] = o]
    /\ UNCHANGED <<initialized, availableSources>>
    /\ UNCHANGED <<mergeVars, opVars, otherVars>>

\* a caller enters while the round is in flight: it gets the same promise
CallJoinsRound(c, o) ==
    /\ pc[c] = "idle"
    /\ ~initialized
    /\ ~StartsRound
    /\ pc' = [pc EXCEPT ![c] = "awaitInit"]
    /\ callOp' = [callOp EXCEPT ![c] = o]
    /\ UNCHANGED svcVars
    /\ UNCHANGED <<mergeVars, opVars, otherVars>>

\* a caller enters when the service is Ready: no wait
CallWhenReady(c, o) ==
    /\ pc[c] = "idle"
    /\ initialized
    /\ pc' = [pc EXCEPT ![c] = "body"]
    /\ callOp' = [callOp EXCEPT ![c] = o]
    /\ UNCHANGED svcVars
    /\ UNCHANGED <<mergeVars, opVars, otherVars>>

\* one isAvailable() promise settles
ProbeSettle(s, outcome) ==
    /\ probe[s] = "pending"
    /\ probe' = [probe EXCEPT ![s] = outcome]
    /\ UNCHANGED <<initialized, initializationPromise, availableSources, probeCalls>>
    /\ UNCHANGED callerVars
    /\ UNCHANGED <<mergeVars, opVars, otherVars>>

SettleSome == \E s \in SourceNames, outcome \in ProbeOutcomes : ProbeSettle(s, outcome)

\* _initialize resumes after await Promise.allSettled: the try branch, or the catch
\* branch when a statement of the try branch raises
Aggregate(raised) ==
    /\ initializationPromise = "pending"
    /\ ~initialized
    /\ AllSettled(probe)
    /\ availableSources' = IF raised THEN CatchFallback ELSE AggregateAvailable(probe)
    /\ initialized' = TRUE
    /\ initializationPromise' = InitializePromise(raised)
    /\ probe' = [s \in SourceNames |-> "done"]
    /\ UNCHANGED probeCalls
    /\ UNCHANGED callerVars
    /\ UNCHANGED <<mergeVars, opVars, otherVars>>

AggregateSome == \E raised \in BOOLEAN : Aggregate(raised)

\* a caller awaiting the initialization promise resumes
Resume(c) ==
    /\ pc[c] = "awaitInit"
    /\ initializationPromise = "fulfilled"
    /\ pc' = [pc EXCEPT ![c] = "resumed"]
    /\ UNCHANGED callOp
    /\ UNCHANGED svcVars
    /\ UNCHANGED <<mergeVars, opVars, otherVars>>

\* the operation's body runs to its end and the call returns
Return(c) ==
    /\ pc[c] \in {"body", "resumed"}
    /\ pc' = [pc EXCEPT ![c] = "idle"]
    /\ callOp' = [callOp EXCEPT ![c] = "none"]
    /\ UNCHANGED svcVars
    /\ UNCHANGED <<mergeVars, opVars, otherVars>>

Next ==
    \/ \E c \in Callers, o \in InitOps : CallStartsRound(c, o)
    \/ \E c \in Callers, o \in InitOps : CallJoinsRound(c, o)
    \/ \E c \in Callers, o \in InitOps : CallWhenReady(c, o)
    \/ SettleSome
    \/ AggregateSome
    \/ \E c \in Callers : Resume(c)
    \/ \E c \in Callers : Return(c)

Spec == Init /\ [][Next]_vars

\* the event loop runs every continuation that is ready, and every isAvailable()
\* promise of the round settles
FairSpec == Spec /\ WF_vars(SettleSome) /\ WF_vars(AggregateSome)

(***************************************************************************)
(* Claims about initialization (Spec, FairSpec).                           *)
(***************************************************************************)
\* C1: whatever callers enter initialize(), getMovieMetadata, searchMovies,
\* searchMoviesWithUpcoming or getEnhancedMetadata before the service is Ready, and
\* in whatever interleaving, every adapter's isAvailable() is invoked at most once,
\* and a caller that had to wait runs on only after that one round has completed.
C1_SingleProbeRound ==
    /\ \A s \in SourceNames : probeCalls[s] <= 1
    /\ \A c \in Callers :
          pc[c] \in {"resumed", "body"} =>
              /\ initialized
              /\ initializationPromise = "fulfilled"
              /\ \A s \in SourceNames : probe[s] = "done" /\ probeCalls[s] = 1

\* C1 witness: two callers that both entered before Ready have resumed after a
\* round that invoked every probe once.
C1_Witness ==
    /\ \E c1, c2 \in Callers : c1 # c2 /\ pc[c1] = "resumed" /\ pc[c2] = "resumed"
    /\ \A s \in SourceNames : probeCalls[s] = 1

\* C2: in every Ready state, whatever the probes returned or threw and also when
\* the try branch raised, the available list holds both TMDB and CustomDB and is
\* not empty.
C2_FallbackAdaptersAvailable ==
    initialized =>
        /\ "TMDB" \in Range(availableSources)
        /\ "CustomDB" \in Range(availableSources)
        /\ availableSources # <<>>

\* C2 witness: Ready with CustomDB last in a list of several adapters, which
\* happens only when its probe failed and it was pushed by the fallback loop.
C2_Witness ==
    /\ initialized
    /\ Len(availableSources) > 1
    /\ availableSources[Len(availableSources)] = "CustomDB"

Undef == "<undefined>"
Null == "<null>"
Absent == "<absent>"

\* values of a number-valued field
Num(n) == [k |-> "num", n |-> n]
NumNaN == [k |-> "NaN", n |-> 0]
NumUndef == [k |-> "undefined", n |-> 0]
NumNull == [k |-> "null", n |-> 0]
NumAbsent == [k |-> "absent", n |-> 0]

\* values of an array-valued field
Arr(a) == [k |-> "arr", a |-> a]
ArrUndef == [k |-> "undefined", a |-> <<>>]
ArrNull == [k |-> "null", a |-> <<>>]
ArrAbsent == [k |-> "absent", a |-> <<>>]

\* the provider keys of ExternalIds that are modelled (the two WikidataAdapter writes)
ExtKeys == {"imdb", "wikidata"}
\* an id is missing from the object, present with the value undefined, or a string
ExtVals == {Absent, Undef, "", "tt1", "tt2"}
NoIds == [key \in ExtKeys |-> Absent]
Ext(m) == [k |-> "obj", m |-> m]
ExtUndef == [k |-> "undefined", m |-> NoIds]
ExtNull == [k |-> "null", m |-> NoIds]
ExtAbsent == [k |-> "absent", m |-> NoIds]

Fields ==
    {"budget", "overview", "writers", "videos", "cast", "crew", "genres", "similar",
     "externalIds", "source"}

UnionFields == {"videos", "cast", "crew", "genres", "similar"}

FieldType(f) ==
    CASE f = "budget" -> "num"
      [] f \in {"overview", "source"} -> "str"
      [] f = "externalIds" -> "ext"
      [] OTHER -> "arr"

UndefOf(f) ==
    CASE FieldType(f) = "num" -> NumUndef
      [] FieldType(f) = "str" -> Undef
      [] FieldType(f) = "ext" -> ExtUndef
      [] OTHER -> ArrUndef

AbsentOf(f) ==
    CASE FieldType(f) = "num" -> NumAbsent
      [] FieldType(f) = "str" -> Absent
      [] FieldType(f) = "ext" -> ExtAbsent
      [] OTHER -> ArrAbsent

\* String.prototype.toLowerCase on the strings the records hold
ToLower(str) ==
    CASE str \in {"Leo", "LEO"} -> "leo"
      [] str = "Tom" -> "tom"
      [] str \in {"Ann", "ANN"} -> "ann"
      [] str \in {"Director", "DIRECTOR"} -> "director"
      [] str \in {"Drama", "DRAMA"} -> "drama"
      [] str = "Crime" -> "crime"
      [] OTHER -> str

\* a template literal's rendering of a value: `${v}`
ToStr(v) ==
    CASE v = Undef -> "undefined"
      [] v = Null -> "null"
      [] OTHER -> v

\* the elements the generated collections are built from; two elements of each
\* kind share their merge key
ElemsOf(f) ==
    CASE f = "videos"  -> {[id |-> "v1", key |-> "k1"], [id |-> "v2", key |-> "k1"],
                           [id |-> "v3", key |-> "k2"]}
      [] f = "cast"    -> {[id |-> "c1", name |-> "Leo"], [id |-> "c2", name |-> "LEO"],
                           [id |-> "c3", name |-> "Tom"]}
      [] f = "crew"    -> {[name |-> "Ann", job |-> "Director"],
                           [name |-> "ANN", job |-> "DIRECTOR"],
                           [name |-> "Ann", job |-> Undef]}
      [] f = "genres"  -> {"Drama", "DRAMA", "Crime"}
      [] f = "similar" -> {[id |-> "1", title |-> "A"], [id |-> "1", title |-> "B"],
                           [id |-> "2", title |-> "A"]}
      [] f = "writers" -> {"w1", "w2"}

SeqsUpTo(S, n) == UNION {[1..m -> S] : m \in 0..n}

\* the values a field of a target record is drawn from
TargetDom(f) ==
    CASE f = "budget" -> {NumUndef, NumNull, NumNaN, Num(0), Num(100)}
      [] f = "overview" -> {Undef, Null, "", "text"}
      [] f = "source" -> {Undef, "CustomDB", "TMDB", "CustomDB, TMDB"}
      [] f = "externalIds" -> {ExtUndef, ExtNull} \cup {Ext(m) : m \in [ExtKeys -> ExtVals]}
      [] OTHER -> {ArrUndef, ArrNull} \cup {Arr(a) : a \in SeqsUpTo(ElemsOf(f), MaxLen)}

\* the values a field of a source record is drawn from
SourceDom(f) ==
    CASE f = "budget" -> {NumAbsent, NumUndef, NumNull, NumNaN, Num(0), Num(200)}
      [] f = "overview" -> {Absent, Undef, Null, "", "other"}
      [] f = "source" -> {Absent, Undef, "CustomDB", "TMDB"}
      [] f = "externalIds" ->
            {ExtAbsent, ExtUndef, ExtNull} \cup {Ext(m) : m \in [ExtKeys -> ExtVals]}
      [] OTHER ->
            {ArrAbsent, ArrUndef, ArrNull} \cup {Arr(a) : a \in SeqsUpTo(ElemsOf(f), MaxLen)}

\* base records: a field of a generated record keeps the base's value unless it is
\* the field the record varies in
EmptyTarget == [f \in Fields |-> IF f = "source" THEN "CustomDB" ELSE UndefOf(f)]

FullTarget ==
    [budget |-> Num(100), overview |-> "text", writers |-> Arr(<<"w1">>),
     videos |-> Arr(<<[id |-> "v1", key |-> "k1"]>>),
     cast |-> Arr(<<[id |-> "c1", name |-> "Leo"]>>),
     crew |-> Arr(<<[name |-> "Ann", job |-> "Director"]>>),
     genres |-> Arr(<<"Drama">>),
     similar |-> Arr(<<[id |-> "1", title |-> "A"]>>),
     externalIds |-> Ext([imdb |-> "tt1", wikidata |-> Absent]),
     source |-> "CustomDB"]

EmptySource == [f \in Fields |-> IF f = "source" THEN "TMDB" ELSE AbsentOf(f)]

FullSource ==
    [budget |-> Num(200), overview |-> "other", writers |-> Arr(<<"w2">>),
     videos |-> Arr(<<[id |-> "v3", key |-> "k2"]>>),
     cast |-> Arr(<<[id |-> "c3", name |-> "Tom"]>>),
     crew |-> Arr(<<[name |-> "Ann", job |-> Undef]>>),
     genres |-> Arr(<<"Crime">>),
     similar |-> Arr(<<[id |-> "2", title |-> "A"]>>),
     externalIds |-> Ext([imdb |-> "tt1", wikidata |-> "tt2"]),
     source |-> "TMDB"]

(***************************************************************************)
(* mergeMetadata, lines 459-557.                                           *)
(***************************************************************************)
\* target[k] === undefined || target[k] === null
IsNullish(f, v) ==
    IF FieldType(f) = "str" THEN v \in {Undef, Null, Absent}
    ELSE v.k \in {"undefined", "null", "absent"}

\* Array.isArray(target[k]) && target[k].length === 0
IsEmptyArray(f, v) == FieldType(f) = "arr" /\ v.k = "arr" /\ Len(v.a) = 0

\* variant: the fill test written as !target[k], which also replaces 0, NaN and ""
IsFillable_Falsy(f, v) ==
    \/ IsNullish(f, v)
    \/ IsEmptyArray(f, v)
    \/ (FieldType(f) = "num" /\ (v.k = "NaN" \/ (v.k = "num" /\ v.n = 0)))
    \/ (FieldType(f) = "str" /\ v = "")

\* the condition of lines 463-467
IsFillable(f, v) == IsNullish(f, v) \/ IsEmptyArray(f, v)

\* Object.keys(source) lists the key
HasOwnKey(rec, f) ==
    IF FieldType(f) = "str" THEN rec[f] # Absent ELSE rec[f].k # "absent"

\* the value read from rec[f]: a missing key reads as undefined
ReadField(rec, f) == IF HasOwnKey(rec, f) THEN rec[f] ELSE UndefOf(f)

\* lines 461-470: every own key of source is copied where target has nothing
FillAbsent(target, source) ==
    [f \in Fields |->
        IF HasOwnKey(source, f) /\ IsFillable(f, target[f])
        THEN ReadField(source, f)
        ELSE target[f]]

\* { ...target.externalIds, ...source.externalIds }: source's own keys come last
SpreadIds(t, s) ==
    [key \in DOMAIN s.m |->
        IF s.m[key] # Absent THEN s.m[key]
        ELSE IF t.k = "obj" THEN t.m[key] ELSE Absent]

\* lines 472-475
MergeExternalIds(t, s) == IF s.k = "obj" THEN Ext(SpreadIds(t, s)) ELSE t

\* lines 477-490
UnionVideos(tv, sv) ==
    IF sv.k = "arr" /\ Len(sv.a) > 0
    THEN IF tv.k # "arr" THEN Arr(sv.a)
         ELSE LET existingKeys == {tv.a[i].key : i \in 1..Len(tv.a)}
              IN  Arr(tv.a \o SelectSeq(sv.a, LAMBDA video : video.key \notin existingKeys))
    ELSE tv

\* lines 492-505
UnionCast(tc, sc) ==
    IF sc.k = "arr" /\ Len(sc.a) > 0
    THEN IF tc.k # "arr" THEN Arr(sc.a)
         ELSE LET existingNames == {ToLower(tc.a[i].name) : i \in 1..Len(tc.a)}
              IN  Arr(tc.a \o SelectSeq(sc.a,
                          LAMBDA castMember : ToLower(castMember.name) \notin existingNames))
    ELSE tc

\* `${c.name.toLowerCase()}-${c.job?.toLowerCase() || ""}`
CrewKey(c) == ToLower(c.name) \o "-" \o (IF c.job \in {Undef, Null} THEN "" ELSE ToLower(c.job))

\* lines 507-521
UnionCrew(tc, sc) ==
    IF sc.k = "arr" /\ Len(sc.a) > 0
    THEN IF tc.k # "arr" THEN Arr(sc.a)
         ELSE LET existingKeys == {CrewKey(tc.a[i]) : i \in 1..Len(tc.a)}
              IN  Arr(tc.a \o SelectSeq(sc.a,
                          LAMBDA crewMember : CrewKey(crewMember) \notin existingKeys))
    ELSE tc

\* lines 523-536
UnionGenres(tg, sg) ==
    IF sg.k = "arr" /\ Len(sg.a) > 0
    THEN IF tg.k # "arr" THEN Arr(sg.a)
         ELSE LET existingGenres == {ToLower(tg.a[i]) : i \in 1..Len(tg.a)}
              IN  Arr(tg.a \o SelectSeq(sg.a, LAMBDA genre : ToLower(genre) \notin existingGenres))
    ELSE tg

\* lines 538-551
UnionSimilar(ts, ss) ==
    IF ss.k = "arr" /\ Len(ss.a) > 0
    THEN IF ts.k # "arr" THEN Arr(ss.a)
         ELSE LET existingIds == {ts.a[i].id : i \in 1..Len(ts.a)}
              IN  Arr(ts.a \o SelectSeq(ss.a, LAMBDA movie : movie.id \notin existingIds))
    ELSE ts

\* lines 553-556
MergeSourceTag(t, s) == IF t # s THEN ToStr(t) \o ", " \o ToStr(s) ELSE t

\* mergeMetadata(target, source): the target after the call (source is only read:
\* an array taken over from source by the fill already holds every key of source,
\* so the union steps push nothing onto it)
mergeMetadata(target, source) ==
    LET filled == FillAbsent(target, source)
    IN  [filled EXCEPT
            !.externalIds = MergeExternalIds(filled.externalIds, ReadField(source, "externalIds")),
            !.videos = UnionVideos(filled.videos, ReadField(source, "videos")),
            !.cast = UnionCast(filled.cast, ReadField(source, "cast")),
            !.crew = UnionCrew(filled.crew, ReadField(source, "crew")),
            !.genres = UnionGenres(filled.genres, ReadField(source, "genres")),
            !.similar = UnionSimilar(filled.similar, ReadField(source, "similar")),
            !.source = MergeSourceTag(filled.source, ReadField(source, "source"))]

(***************************************************************************)
(* MergeSpec: mergeMetadata applied, up to MaxMerges times, to a target    *)
(* and a source that vary in one field over that field's values.           *)
(***************************************************************************)
MergeInit ==
    /\ initialized = FALSE
    /\ initializationPromise = "null"
    /\ availableSources = <<>>
    /\ probe = [s \in SourceNames |-> "idle"]
    /\ probeCalls = [s \in SourceNames |-> 0]
    /\ pc = [c \in Callers |-> "idle"]
    /\ callOp = [c \in Callers |-> "none"]
    /\ \E f \in Fields, bt \in {EmptyTarget, FullTarget}, bs \in {EmptySource, FullSource} :
         \E v \in TargetDom(f), w \in SourceDom(f) :
            /\ mTarget = [bt EXCEPT ![f] = v]
            /\ mSource = [bs EXCEPT ![f] = w]
    /\ mBefore = mTarget
    /\ mOnce = mTarget
    /\ merges = 0
    /\ OpIdle
    /\ OtherIdle

Merge ==
    /\ merges < MaxMerges
    /\ mBefore' = mTarget
    /\ mTarget' = mergeMetadata(mTarget, mSource)
    /\ mOnce' = IF merges = 0 THEN mTarget' ELSE mOnce
    /\ merges' = merges + 1
    /\ UNCHANGED mSource
    /\ UNCHANGED <<svcVars, callerVars, opVars, otherVars>>

MergeNext == Merge

MergeSpec == MergeInit /\ [][MergeNext]_vars

(***************************************************************************)
(* Claims about mergeMetadata (MergeSpec).                                 *)
(***************************************************************************)
\* C7: merging the same source into a target a second time leaves every field of
\* the target, the source tag and the collections included, as the first merge
\* left it.
C7_MergeIdempotent == merges >= 2 => mTarget = mOnce

\* a field value counts as non-empty when it is not undefined, null or an empty array
NonEmptyValue(f, v) ==
    CASE FieldType(f) = "str" -> v \notin {Undef, Null}
      [] FieldType(f) = "arr" -> v.k = "arr" /\ Len(v.a) > 0
      [] OTHER -> v.k \notin {"undefined", "null"}

\* C8: for every field other than externalIds and source, a value that was
\* non-empty before a merge is kept by it: a scalar has its previous value, a
\* collection still starts with its previous elements in their order; and a field
\* whose value was replaced by something else than an extension held undefined,
\* null or an empty array before.
C8_FillOnlyIfAbsent ==
    merges >= 1 =>
        \A f \in Fields \ {"externalIds", "source"} :
            LET b == mBefore[f]
                a == mTarget[f]
            IN  /\ NonEmptyValue(f, b) =>
                      IF FieldType(f) = "arr"
                      THEN /\ a.k = "arr"
                           /\ Len(a.a) >= Len(b.a)
                           /\ SubSeq(a.a, 1, Len(b.a)) = b.a
                      ELSE a = b
                /\ (a # b /\ ~NonEmptyValue(f, b)) => a = ReadField(mSource, f)

\* C8 witness: a merge met a target whose budget was 0 and whose source offered
\* another budget, and a target whose cast was extended behind its old members.
C8_Witness ==
    /\ merges >= 1
    /\ \/ /\ mBefore.budget = Num(0)
          /\ mSource.budget = Num(200)
          /\ mTarget.budget = Num(0)
       \/ /\ mBefore.cast.k = "arr"
          /\ mTarget.cast.k = "arr"
          /\ Len(mBefore.cast.a) > 0
          /\ Len(mTarget.cast.a) > Len(mBefore.cast.a)

\* an id of externalIds holds a value
HasIdValue(x) == x \notin {Absent, Undef}

\* C9: every provider key that held a value in target.externalIds before a merge
\* holds the same value after it, whatever source.externalIds holds for the key.
C9_ExternalIdsAdditive ==
    merges >= 1 =>
        (mBefore.externalIds.k = "obj" =>
            \A key \in ExtKeys :
                HasIdValue(mBefore.externalIds.m[key]) =>
                    /\ mTarget.externalIds.k = "obj"
                    /\ mTarget.externalIds.m[key] = mBefore.externalIds.m[key])

\* the key by which a union field identifies an element
MergeKeyOf(f, e) ==
    CASE f = "videos" -> e.key
      [] f = "cast" -> ToLower(e.name)
      [] f = "crew" -> CrewKey(e)
      [] f = "genres" -> ToLower(e)
      [] f = "similar" -> e.id

\* the elements of a collection value have pairwise distinct merge keys
DistinctKeys(f, v) ==
    v.k = "arr" =>
        \A i, j \in 1..Len(v.a) : i # j => MergeKeyOf(f, v.a[i]) # MergeKeyOf(f, v.a[j])

\* C10: if the videos (cast, crew, genres, similar) of the target had pairwise
\* distinct keys before a merge, they have pairwise distinct keys after it, for
\* every source, one that lists a key twice included.
C10_UnionKeepsKeysDistinct ==
    merges >= 1 =>
        \A f \in UnionFields : DistinctKeys(f, mBefore[f]) => DistinctKeys(f, mTarget[f])

(***************************************************************************)
(* OpSpec: one call chain through getMovieMetadata, searchMovies,          *)
(* searchMoviesWithUpcoming and getEnhancedMetadata, lines 279-442. The    *)
(* adapters answer through the MetadataSource interface: a fetch gives a   *)
(* record, null or an exception, a search a list or an exception. A record *)
(* is identified by the adapter that built it (its source field).          *)
(***************************************************************************)
\* searchResults.length >= 5, line 366
EnoughResults == 5
\* query.trim().length < 3, line 366
MinQueryLength == 3

\* what source.getMovieMetadata(id, options) can settle to
FetchOutcomes == {"record", "absent", "throw"}

\* the lengths of the lists a search returns in the model
ResultSizes == {0, 2, EnoughResults}

\* what source.searchMovies(query) can settle to
SearchOutcomes ==
    {[k |-> "throw", n |-> 0]} \cup {[k |-> "ok", n |-> m] : m \in ResultSizes}

\* the list of n results of one adapter; identifiers are provider-scoped
MkResults(source, n) ==
    [i \in 1..n |-> [id |-> source \o "-" \o ToString(i), title |-> "Dune"]]

\* the queries of the model: shorter than three characters, three characters of
\* which one or two are blanks, and longer
Queries == {"du", " d ", " pa", "Dune"}

\* what getUpcomingMovies() can settle to
UpcomingOutcomes ==
    {[k |-> "throw", list |-> <<>>],
     [k |-> "ok", list |-> <<>>],
     [k |-> "ok", list |-> <<[id |-> "TMDB-1", title |-> "Dune: Part Two"],
                             [id |-> "TMDB-7", title |-> "DUNE Messiah"],
                             [id |-> "TMDB-8", title |-> "Arrival"]>>]}

\* String.prototype.toLowerCase on the titles and queries of the model
LowerTitle(str) ==
    CASE str = "Dune" -> "dune"
      [] str = "Dune: Part Two" -> "dune: part two"
      [] str = "DUNE Messiah" -> "dune messiah"
      [] str = "Arrival" -> "arrival"
      [] str = "Inception" -> "inception"
      [] str = "The Godfather" -> "the godfather"
      [] OTHER -> str

\* String.prototype.includes
Includes(hay, needle) ==
    \E i \in 1..(Len(hay) - Len(needle) + 1) : SubSeq(hay, i, i + Len(needle) - 1) = needle

RECURSIVE TrimLeft(_)
TrimLeft(str) ==
    IF Len(str) > 0 /\ SubSeq(str, 1, 1) = " " THEN TrimLeft(SubSeq(str, 2, Len(str))) ELSE str

RECURSIVE TrimRight(_)
TrimRight(str) ==
    IF Len(str) > 0 /\ SubSeq(str, Len(str), Len(str)) = " "
    THEN TrimRight(SubSeq(str, 1, Len(str) - 1))
    ELSE str

\* String.prototype.trim
Trim(str) == TrimRight(TrimLeft(str))

\* variant: the fetch loop of getMovieMetadata without its try/catch
FetchEffect_NoCatch(outcome) ==
    CASE outcome = "record" -> "hit"
      [] outcome = "absent" -> "miss"
      [] outcome = "throw" -> "raise"

\* lines 292-303: a truthy result ends the loop, null goes on, an exception is
\* recorded and the loop goes on
FetchEffect(outcome) ==
    CASE outcome = "record" -> "hit"
      [] outcome = "absent" -> "miss"
      [] outcome = "throw" -> "caught"

\* lines 414-438: a truthy result is merged, null is skipped, an exception is logged
EnhanceEffect(outcome) ==
    CASE outcome = "record" -> "merge"
      [] outcome = "absent" -> "skip"
      [] outcome = "throw" -> "caught"

\* variant: the length test written as results.length >= 0
HasResults_Always(n) == n >= 0

\* results.length > 0, lines 326 and 340
HasResults(n) == n > 0

\* lines 322-332 and 336-346: a non-empty list is returned, an empty one or an
\* exception goes on to the next adapter
SearchEffect(outcome) ==
    CASE outcome.k = "throw" -> "caught"
      [] outcome.k = "ok" /\ HasResults(outcome.n) -> "return"
      [] OTHER -> "next"

\* line 411: every available adapter but the one named by the primary record
SecondarySources(primary) == SelectSeq(availableSources, LAMBDA s : s # primary)

\* variant: the matching upcoming movies appended without the existingIds filter
UniqueUpcoming_NoDedup(found, upcomingMovies, q) ==
    SelectSeq(upcomingMovies, LAMBDA movie : Includes(LowerTitle(movie.title), LowerTitle(q)))

\* lines 378-386: the upcoming movies whose title contains the query and whose id
\* is not among the results
UniqueUpcoming(found, upcomingMovies, q) ==
    LET existingIds == {found[i].id : i \in 1..Len(found)}
        matchingUpcoming ==
            SelectSeq(upcomingMovies,
                      LAMBDA movie : Includes(LowerTitle(movie.title), LowerTitle(q)))
    IN  SelectSeq(matchingUpcoming, LAMBDA movie : movie.id \notin existingIds)

\* line 366
ReturnsSearchOnly(found, q) == Len(found) >= EnoughResults \/ Len(Trim(q)) < MinQueryLength

OpInit ==
    /\ initialized = FALSE
    /\ initializationPromise = "null"
    /\ availableSources = <<>>
    /\ probe = [s \in SourceNames |-> "idle"]
    /\ probeCalls = [s \in SourceNames |-> 0]
    /\ pc = [c \in Callers |-> "idle"]
    /\ callOp = [c \in Callers |-> "none"]
    /\ mTarget = <<>> /\ mSource = <<>> /\ mBefore = <<>> /\ mOnce = <<>> /\ merges = 0
    /\ OpIdle
    /\ OtherIdle

\* the first operation's ensureInitialized(): the whole probe round, which no
\* other call chain interleaves with here
OpInitialize(outcomes, raised) ==
    /\ ~initialized
    /\ StartsRound
    /\ opc = "idle"
    /\ availableSources' = IF raised THEN CatchFallback ELSE AggregateAvailable(outcomes)
    /\ initialized' = TRUE
    /\ initializationPromise' = InitializePromise(raised)
    /\ probe' = [s \in SourceNames |-> "done"]
    /\ probeCalls' = [s \in SourceNames |-> probeCalls[s] + 1]
    /\ UNCHANGED <<callerVars, mergeVars, opVars, otherVars>>

\* getMovieMetadata / getEnhancedMetadata up to the fetch loop, lines 279-289
StartFetch(o, oracle) ==
    /\ initialized
    /\ opc = "idle"
    /\ op' = o
    /\ fetchOracle' = oracle
    /\ IF Len(availableSources) = 0
       THEN /\ result' = AbsentResult
            /\ opc' = "done"
            /\ idx' = idx
       ELSE /\ result' = result
            /\ opc' = "fetch"
            /\ idx' = 1
    /\ UNCHANGED <<query, metadata, fetchLog, searchLog, searchResults, secLog, upcomingLog, merged>>
    /\ UNCHANGED <<svcVars, callerVars, mergeVars, otherVars>>

\* one round of the loop of lines 291-304
FetchStep ==
    /\ opc = "fetch"
    /\ LET source == availableSources[idx]
           effect == FetchEffect(fetchOracle[source])
       IN  /\ fetchLog' = Append(fetchLog, source)
           /\ CASE effect = "hit" ->
                     /\ metadata' = source
                     /\ opc' = "fetched"
                     /\ UNCHANGED <<idx, result>>
                [] effect = "raise" ->
                     /\ result' = RaisedResult
                     /\ opc' = "done"
                     /\ UNCHANGED <<idx, metadata>>
                [] OTHER ->
                     /\ idx' = idx + 1
                     /\ opc' = IF idx < Len(availableSources) THEN "fetch" ELSE "fetched"
                     /\ UNCHANGED <<metadata, result>>
    /\ UNCHANGED <<op, query, fetchOracle, searchLog, searchResults, secLog, upcomingLog, merged>>
    /\ UNCHANGED <<svcVars, callerVars, mergeVars, otherVars>>

\* lines 306-310 and, in getEnhancedMetadata, lines 400-411
FetchReturn ==
    /\ opc = "fetched"
    /\ IF op = "getMovieMetadata"
       THEN /\ result' = IF metadata = NullMetadata THEN AbsentResult ELSE RecordResult(metadata, <<>>)
            /\ opc' = "done"
            /\ idx' = idx
       ELSE IF metadata = NullMetadata
            THEN /\ result' = AbsentResult
                 /\ opc' = "done"
                 /\ idx' = idx
            ELSE /\ result' = result
                 /\ opc' = IF SecondarySources(metadata) = <<>> THEN "enhanced" ELSE "enhance"
                 /\ idx' = 1
    /\ UNCHANGED <<op, query, fetchOracle, metadata, fetchLog, searchLog, searchResults,
                   secLog, upcomingLog, merged>>
    /\ UNCHANGED <<svcVars, callerVars, mergeVars, otherVars>>

\* one round of the loop of lines 413-439
EnhanceStep(outcome) ==
    /\ opc = "enhance"
    /\ LET source == SecondarySources(metadata)[idx]
           effect == EnhanceEffect(outcome)
       IN  /\ secLog' = Append(secLog, source)
           /\ merged' = IF effect = "merge" THEN Append(merged, source) ELSE merged
           /\ IF effect = "raise"
              THEN /\ result' = RaisedResult
                   /\ opc' = "done"
                   /\ idx' = idx
              ELSE /\ result' = result
                   /\ idx' = idx + 1
                   /\ opc' = IF idx < Len(SecondarySources(metadata)) THEN "enhance"
                             ELSE "enhanced"
    /\ UNCHANGED <<op, query, fetchOracle, metadata, fetchLog, searchLog, searchResults,
                   upcomingLog>>
    /\ UNCHANGED <<svcVars, callerVars, mergeVars, otherVars>>

\* line 441
EnhanceReturn ==
    /\ opc = "enhanced"
    /\ result' = RecordResult(metadata, merged)
    /\ opc' = "done"
    /\ UNCHANGED <<op, idx, query, fetchOracle, metadata, fetchLog, searchLog, searchResults,
                   secLog, upcomingLog, merged>>
    /\ UNCHANGED <<svcVars, callerVars, mergeVars, otherVars>>

\* searchMovies / searchMoviesWithUpcoming up to the first search, lines 313-319
\* and 354-363
StartSearch(o, q) ==
    /\ initialized
    /\ opc = "idle"
    /\ op' = o
    /\ query' = q
    /\ IF Len(availableSources) = 0
       THEN /\ result' = ListResult(<<>>)
            /\ opc' = "done"
       ELSE /\ result' = result
            /\ opc' = "searchPrimary"
    /\ UNCHANGED <<idx, fetchOracle, metadata, fetchLog, searchLog, searchResults, secLog, upcomingLog,
                   merged>>
    /\ UNCHANGED <<svcVars, callerVars, mergeVars, otherVars>>

\* lines 322-332: the first available adapter
SearchPrimary(outcome) ==
    /\ opc = "searchPrimary"
    /\ LET primarySource == availableSources[1]
           effect == SearchEffect(outcome)
       IN  /\ searchLog' = Append(searchLog, <<primarySource, outcome>>)
           /\ CASE effect = "return" ->
                     /\ searchResults' = MkResults(primarySource, outcome.n)
                     /\ opc' = "searched"
                     /\ UNCHANGED <<idx, result>>
                [] effect = "raise" ->
                     /\ result' = RaisedResult
                     /\ opc' = "done"
                     /\ UNCHANGED <<idx, searchResults>>
                [] OTHER ->
                     /\ idx' = 2
                     /\ opc' = IF 2 <= Len(availableSources) THEN "searchFallback"
                               ELSE "searched"
                     /\ UNCHANGED <<searchResults, result>>
    /\ UNCHANGED <<op, query, fetchOracle, metadata, fetchLog, secLog, upcomingLog, merged>>
    /\ UNCHANGED <<svcVars, callerVars, mergeVars, otherVars>>

\* one round of the loop of lines 335-347
SearchFallback(outcome) ==
    /\ opc = "searchFallback"
    /\ LET source == availableSources[idx]
           effect == SearchEffect(outcome)
       IN  /\ searchLog' = Append(searchLog, <<source, outcome>>)
           /\ CASE effect = "return" ->
                     /\ searchResults' = MkResults(source, outcome.n)
                     /\ opc' = "searched"
                     /\ UNCHANGED <<idx, result>>
                [] effect = "raise" ->
                     /\ result' = RaisedResult
                     /\ opc' = "done"
                     /\ UNCHANGED <<idx, searchResults>>
                [] OTHER ->
                     /\ idx' = idx + 1
                     /\ opc' = IF idx < Len(availableSources) THEN "searchFallback"
                               ELSE "searched"
                     /\ UNCHANGED <<searchResults, result>>
    /\ UNCHANGED <<op, query, fetchOracle, metadata, fetchLog, secLog, upcomingLog, merged>>
    /\ UNCHANGED <<svcVars, callerVars, mergeVars, otherVars>>

\* searchMovies returns (lines 328, 342, 350); searchMoviesWithUpcoming goes on
\* with lines 365-368
SearchReturn ==
    /\ opc = "searched"
    /\ IF op = "searchMovies" \/ ReturnsSearchOnly(searchResults, query)
       THEN /\ result' = ListResult(searchResults)
            /\ opc' = "done"
       ELSE /\ result' = result
            /\ opc' = "upcoming"
    /\ UNCHANGED <<op, idx, query, fetchOracle, metadata, fetchLog, searchLog, searchResults,
                   secLog, upcomingLog, merged>>
    /\ UNCHANGED <<svcVars, callerVars, mergeVars, otherVars>>

\* lines 371-392: the upcoming list of the TMDB adapter, when it is available
Upcoming(outcome) ==
    /\ opc = "upcoming"
    /\ IF "TMDB" \in Range(availableSources)
       THEN /\ upcomingLog' = <<outcome>>
            /\ IF outcome.k = "ok"
               THEN result' = ListResult(searchResults \o
                                         UniqueUpcoming(searchResults, outcome.list, query))
               ELSE result' = ListResult(searchResults)
       ELSE /\ upcomingLog' = upcomingLog
            /\ result' = ListResult(searchResults)
    /\ opc' = "done"
    /\ UNCHANGED <<op, idx, query, fetchOracle, metadata, fetchLog, searchLog, searchResults,
                   secLog, merged>>
    /\ UNCHANGED <<svcVars, callerVars, mergeVars, otherVars>>

\* the caller has its value; the next call starts afresh
OpReturn ==
    /\ opc = "done"
    /\ op' = "none"
    /\ opc' = "idle"
    /\ idx' = 0
    /\ query' = ""
    /\ fetchOracle' = [s \in SourceNames |-> "absent"]
    /\ metadata' = NullMetadata
    /\ fetchLog' = <<>>
    /\ searchLog' = <<>>
    /\ searchResults' = <<>>
    /\ secLog' = <<>>
    /\ upcomingLog' = <<>>
    /\ merged' = <<>>
    /\ result' = PendingResult
    /\ UNCHANGED <<svcVars, callerVars, mergeVars, otherVars>>

OpNext ==
    \/ \E outcomes \in [SourceNames -> ProbeOutcomes], raised \in BOOLEAN :
          OpInitialize(outcomes, raised)
    \/ \E o \in {"getMovieMetadata", "getEnhancedMetadata"},
          oracle \in [SourceNames -> FetchOutcomes] : StartFetch(o, oracle)
    \/ FetchStep
    \/ FetchReturn
    \/ \E outcome \in FetchOutcomes : EnhanceStep(outcome)
    \/ EnhanceReturn
    \/ StartSearch("searchMovies", "Dune")
    \/ \E q \in Queries : StartSearch("searchMoviesWithUpcoming", q)
    \/ \E outcome \in SearchOutcomes : SearchPrimary(outcome)
    \/ \E outcome \in SearchOutcomes : SearchFallback(outcome)
    \/ SearchReturn
    \/ \E outcome \in UpcomingOutcomes : Upcoming(outcome)
    \/ OpReturn

OpSpec == OpInit /\ [][OpNext]_vars

C5_NeverRaises ==
    opc = "done" =>
        /\ result.k # "raise"
        /\ op \in {"getMovieMetadata", "getEnhancedMetadata"} => result.k \in {"record", "absent"}
        /\ op \in {"searchMovies", "searchMoviesWithUpcoming"} => result.k = "list"
        /\ op = "getMovieMetadata" =>
              (result.k = "absent" <=>
                  \A s \in Range(availableSources) : fetchOracle[s] \in {"absent", "throw"})

\* C5 witness: getMovieMetadata has ended with absent after a fetch that threw
\* and a fetch that returned absent.
C5_Witness ==
    /\ op = "getMovieMetadata"
    /\ opc = "done"
    /\ result.k = "absent"
    /\ \E s, t \in Range(fetchLog) : fetchOracle[s] = "throw" /\ fetchOracle[t] = "absent"

\* C6: when searchMovies returns, the adapters it searched are a prefix of the
\* available list, every one but the last gave an empty list or threw, a non-empty
\* value is exactly the list of the last adapter searched, and the value is empty
\* exactly when every available adapter was searched and gave an empty list or
\* threw.
C6_FirstNonEmptySearch ==
    (op = "searchMovies" /\ opc = "done") =>
        LET n == Len(searchLog)
            Empty(i) == searchLog[i][2].k = "throw" \/ searchLog[i][2].n = 0
        IN  /\ result.k = "list"
            /\ n <= Len(availableSources)
            /\ \A i \in 1..n : searchLog[i][1] = availableSources[i]
            /\ \A i \in 1..(n - 1) : Empty(i)
            /\ result.list # <<>> =>
                  /\ n >= 1
                  /\ ~Empty(n)
                  /\ result.list = MkResults(searchLog[n][1], searchLog[n][2].n)
            /\ result.list = <<>> <=> (n = Len(availableSources) /\ \A i \in 1..n : Empty(i))

\* C6 witness: searchMovies has returned the list of the second available adapter
\* after the first threw, with a third adapter available and not searched.
C6_Witness ==
    /\ op = "searchMovies"
    /\ opc = "done"
    /\ Len(searchLog) = 2
    /\ Len(availableSources) >= 3
    /\ searchLog[1][2].k = "throw"
    /\ result.list = MkResults(availableSources[2], 2)

(***************************************************************************)
(* sanitizeMetadata, lines 559-598, and SanitizeSpec: the function applied *)
(* up to MaxSanitize times to a record that varies in one number field and *)
(* one collection field.                                                   *)
(***************************************************************************)
\* lines 566-584
SanNumericFields == {"rating", "runtime", "voteCount", "budget", "revenue"}

\* lines 587-595
SanCollectionFields ==
    {"genres", "writers", "cast", "crew", "videos", "similar", "languages", "keywords",
     "productionCompanies"}

\* the fields of the records sanitized here; source stands for the fields the
\* function only copies
SanFields == SanNumericFields \cup SanCollectionFields \cup {"source"}

\* sanitizeMetadata(null)
SanNull == [null |-> TRUE]

\* the elements of a collection field
SanElemsOf(f) ==
    IF f \in UnionFields \cup {"writers"} THEN ElemsOf(f) ELSE {"en", "fr"}

\* the values of a field of an adapter's or a merged record
SanDom(f) ==
    CASE f \in SanNumericFields -> {NumAbsent, NumUndef, NumNull, NumNaN, Num(0), Num(7)}
      [] f \in SanCollectionFields ->
            {ArrAbsent, ArrUndef, ArrNull} \cup {Arr(a) : a \in SeqsUpTo(SanElemsOf(f), MaxLen)}
      [] OTHER -> {"TMDB"}

\* base records: nothing but the source tag, and every field filled
SanBare ==
    [f \in SanFields |->
        CASE f \in SanNumericFields -> NumAbsent
          [] f \in SanCollectionFields -> ArrAbsent
          [] OTHER -> "TMDB"]

SanFull ==
    [f \in SanFields |->
        CASE f \in SanNumericFields -> Num(7)
          [] f \in SanCollectionFields -> Arr(<<CHOOSE e \in SanElemsOf(f) : TRUE>>)
          [] OTHER -> "TMDB"]

\* variant: NaN is replaced by null rather than by 0
SanitizeNumber_NullForNaN(v) ==
    CASE v.k = "NaN" -> NumNull
      [] v.k = "null" -> Num(0)
      [] OTHER -> v

\* variant: a missing or undefined number becomes 0 as well
SanitizeNumber_ZeroForMissing(v) ==
    IF v.k \in {"absent", "undefined", "NaN", "null"} THEN Num(0) ELSE v

\* x !== undefined && (isNaN(x) || x === null) ? 0 : x  (isNaN(null) is false)
SanitizeNumber(v) ==
    IF v.k \notin {"absent", "undefined"} /\ (v.k = "NaN" \/ v.k = "null") THEN Num(0) ELSE v

\* variant: the test written as x === undefined
EnsureArray_UndefinedOnly(v) == IF v.k \in {"absent", "undefined"} THEN Arr(<<>>) ELSE v

\* if (!x) x = []  (an array, empty or not, is truthy)
EnsureArray(v) == IF v.k \in {"absent", "undefined", "null"} THEN Arr(<<>>) ELSE v

\* lines 559-598: a shallow copy with the number fields and the collection fields
\* repaired
sanitizeMetadata(m) ==
    IF m = SanNull THEN SanNull
    ELSE [f \in DOMAIN m |->
            CASE f \in SanNumericFields -> SanitizeNumber(m[f])
              [] f \in SanCollectionFields -> EnsureArray(m[f])
              [] OTHER -> m[f]]

\* what the object passed to sanitizeMetadata holds after the call: the
\* assignments of lines 566-595 go to the copy made at line 563
ArgAfterCall(m) == m

SanInit ==
    /\ initialized = FALSE
    /\ initializationPromise = "null"
    /\ availableSources = <<>>
    /\ probe = [s \in SourceNames |-> "idle"]
    /\ probeCalls = [s \in SourceNames |-> 0]
    /\ pc = [c \in Callers |-> "idle"]
    /\ callOp = [c \in Callers |-> "none"]
    /\ mTarget = <<>> /\ mSource = <<>> /\ mBefore = <<>> /\ mOnce = <<>> /\ merges = 0
    /\ OpIdle
    /\ \/ sIn = SanNull
       \/ \E base \in {SanBare, SanFull}, f \in SanNumericFields, g \in SanCollectionFields :
             \E v \in SanDom(f), w \in SanDom(g) :
                sIn = [base EXCEPT ![f] = v, ![g] = w]
    /\ sCur = sIn
    /\ sOnce = sIn
    /\ sCalls = 0
    /\ sArg = sIn
    /\ StoreIdle
    /\ RateIdle
    /\ NetIdle
    /\ EnhIdle

\* one application of sanitizeMetadata to the record at hand
Sanitize ==
    /\ sCalls < MaxSanitize
    /\ sCur' = sanitizeMetadata(sCur)
    /\ sOnce' = IF sCalls = 0 THEN sCur' ELSE sOnce
    /\ sCalls' = sCalls + 1
    /\ sArg' = ArgAfterCall(sCur)
    /\ UNCHANGED sIn
    /\ UNCHANGED <<svcVars, callerVars, mergeVars, opVars, storeVars, rateVars, netVars, enhVars>>

SanNext == Sanitize

SanitizeSpec == SanInit /\ [][SanNext]_vars

(***************************************************************************)
(* Claims about sanitizeMetadata (SanitizeSpec).                           *)
(***************************************************************************)
\* the record passed to the latest call, as it was when the call began
SanArgBefore == IF sCalls = 1 THEN sIn ELSE sOnce

\* C26: after a call of sanitizeMetadata on a record, each of rating, runtime,
\* voteCount, budget and revenue is 0 in the result where the input held NaN or
\* null, is missing where the input had no such key, and is the input's value
\* otherwise; and the object passed in holds what it held before the call.
C26_NumbersRepairedInputKept ==
    /\ (sCalls >= 1 /\ sIn # SanNull) =>
          \A f \in SanNumericFields :
              CASE sIn[f].k \in {"NaN", "null"} -> sOnce[f] = Num(0)
                [] sIn[f].k = "absent" -> sOnce[f].k = "absent"
                [] OTHER -> sOnce[f] = sIn[f]
    /\ sCalls \in {1, 2} => sArg = SanArgBefore

\* C26 witness: a record with a NaN budget, its other numbers 7, and a null
\* collection has been sanitized once: the result holds budget 0 and the
\* collection as an empty array, and the input still holds NaN and null.
C26_Witness ==
    /\ sCalls = 1
    /\ sIn # SanNull
    /\ sIn.budget = NumNaN
    /\ sIn.rating = Num(7)
    /\ \E g \in SanCollectionFields : sIn[g] = ArrNull
    /\ sOnce.budget = Num(0)
    /\ sOnce.rating = Num(7)
    /\ sArg = sIn
    /\ sArg # sOnce

\* C11: sanitizing a sanitized record changes no field: the record after the
\* second application equals the record after the first.
C11_SanitizeIdempotent == sCalls >= 2 => sCur = sOnce

\* C11 witness: a record with a NaN rating and a null collection has been
\* sanitized twice, and the first application changed it.
C11_Witness ==
    /\ sCalls = 2
    /\ sIn # SanNull
    /\ sIn.rating = NumNaN
    /\ \E g \in SanCollectionFields : sIn[g] = ArrNull
    /\ sOnce # sIn
    /\ sOnce.rating = Num(0)

\* C12: in every non-null record that sanitizeMetadata has returned, each of the
\* nine collection fields is an array, whatever it was in the input.
C12_CollectionsPresent ==
    (sCalls >= 1 /\ sCur # SanNull) => \A g \in SanCollectionFields : sCur[g].k = "arr"

\* C12 witness: a record whose keywords key was missing and whose other
\* collections were missing too has been sanitized and holds an empty keywords
\* array.
C12_Witness ==
    /\ sCalls = 1
    /\ sIn # SanNull
    /\ \A g \in SanCollectionFields \ {"cast"} : sIn[g] = ArrAbsent
    /\ sIn.cast = ArrNull
    /\ sCur.keywords = Arr(<<>>)
    /\ sCur.cast = Arr(<<>>)

(***************************************************************************)
(* StoreSpec: the override store of CustomDatabaseAdapter                  *)
(* (src/lib/metadata/custom-db-adapter.ts) under addOrUpdateMovie,         *)
(* removeMovie and the orchestrator's reads. customMovies is a plain       *)
(* object, so a look-up also finds the members of Object.prototype.        *)
(* Arrays are objects on a heap: a shallow copy of a record shares the     *)
(* arrays of the record it copies.                                         *)
(***************************************************************************)
\* the identifiers of the model: the two seeded ones, a new one, and one that
\* names a member of Object.prototype
StoreIds == {"custom-1", "custom-2", "custom-9", "toString"}

\* the keys every plain object inherits (those among StoreIds)
ObjectProtoKeys == {"toString"}

\* the order in which allocation walks the collection fields of a record
UnionFieldSeq == <<"videos", "cast", "crew", "genres", "similar">>

NoArrays == [f \in UnionFields |-> ArrUndef]

\* the records given to addOrUpdateMovie
MovieInputs ==
    {[id |-> "custom-1", title |-> "Inception", source |-> "TMDB",
      arr |-> [NoArrays EXCEPT !.genres = Arr(<<"Crime">>)]],
     [id |-> "custom-9", title |-> "Dune", source |-> Absent,
      arr |-> [f \in UnionFields |-> Arr(<<CHOOSE e \in ElemsOf(f) : TRUE>>)]],
     [id |-> "toString", title |-> "Arrival", source |-> Absent, arr |-> NoArrays]}

\* the records a secondary adapter returns to getEnhancedMetadata
SecondaryRecords == {FullSource, EmptySource, [FullSource EXCEPT !.genres = Arr(<<"DRAMA">>)]}

\* the queries given to searchMovies
StoreQueries == {"inception", "Dune", "zzz"}

\* initializeSampleData, lines 63-117: the heap after the constructor
SampleHeap == <<<<"Drama">>, <<[id |-> "c1", name |-> "Leo"]>>,
                <<"Drama", "Crime">>, <<[id |-> "c3", name |-> "Tom"]>>>>

\* initializeSampleData: custom-1 and custom-2, each with genres and cast
SampleMovies ==
    [i \in {"custom-1", "custom-2"} |->
        IF i = "custom-1"
        THEN [id |-> "custom-1", title |-> "Inception", source |-> "CustomDB",
              refs |-> [f \in UnionFields |-> CASE f = "genres" -> 1 [] f = "cast" -> 2
                                                [] OTHER -> 0]]
        ELSE [id |-> "custom-2", title |-> "The Godfather", source |-> "CustomDB",
              refs |-> [f \in UnionFields |-> CASE f = "genres" -> 3 [] f = "cast" -> 4
                                                [] OTHER -> 0]]]

\* a record with the arrays its fields refer to
Deep(rec, h) ==
    [id |-> rec.id, title |-> rec.title, source |-> rec.source,
     arr |-> [f \in UnionFields |-> IF rec.refs[f] = 0 THEN ArrUndef ELSE Arr(h[rec.refs[f]])]]

\* the contents of the store: its own keys and, for each, every field value
DeepStore(store, h) == [i \in DOMAIN store |-> Deep(store[i], h)]

\* this.customMovies[idStr]: an own entry, a member of Object.prototype, or
\* undefined
Lookup(store, id) ==
    IF id \in DOMAIN store THEN [k |-> "record", rec |-> store[id]]
    ELSE IF id \in ObjectProtoKeys THEN [k |-> "inherited"]
    ELSE [k |-> "undefined"]

\* CustomDatabaseAdapter.getMovieMetadata, lines 18-21: customMovies[idStr] || null
AdapterGet(store, id) ==
    IF Lookup(store, id).k = "undefined" THEN [k |-> "absent"] ELSE Lookup(store, id)

\* the return value of removeMovie, lines 48-52: whether customMovies[idStr] is truthy
RemoveReturns(store, id) == Lookup(store, id).k # "undefined"

\* variant: the title compared with the query as typed, without toLowerCase
CustomSearch_CaseSensitive(store, order, q) ==
    LET matching == SelectSeq(order, LAMBDA i : Includes(store[i].title, q))
    IN  [n \in 1..Len(matching) |->
            [id |-> store[matching[n]].id, title |-> store[matching[n]].title]]

\* CustomDatabaseAdapter.searchMovies, lines 23-35: Object.values in insertion order
CustomSearch(store, order, q) ==
    LET matching == SelectSeq(order,
                       LAMBDA i : Includes(LowerTitle(store[i].title), LowerTitle(q)))
    IN  [n \in 1..Len(matching) |->
            [id |-> store[matching[n]].id, title |-> store[matching[n]].title]]

\* how many arrays of record m are allocated up to field f
PresentUpTo(m, f) ==
    Cardinality({n \in 1..Len(UnionFieldSeq) :
                    /\ m.arr[UnionFieldSeq[n]].k = "arr"
                    /\ \E p \in n..Len(UnionFieldSeq) : UnionFieldSeq[p] = f})

\* the arrays of record m, in allocation order
ArraysOf(m) ==
    LET present == SelectSeq(UnionFieldSeq, LAMBDA f : m.arr[f].k = "arr")
    IN  [n \in 1..Len(present) |-> m.arr[present[n]].a]

\* the caller's record m as an object whose arrays lie behind heap h
Allocated(m, h) ==
    [id |-> m.id, title |-> m.title, source |-> m.source,
     refs |-> [f \in UnionFields |->
                 IF m.arr[f].k = "arr" THEN Len(h) + PresentUpTo(m, f) ELSE 0]]

\* the target mergeMetadata sees in getEnhancedMetadata: the sanitized copy of the
\* stored record, whose missing collections are fresh empty arrays
EnhancedTarget(rec, h) ==
    [f \in Fields |->
        CASE f \in UnionFields -> IF rec.refs[f] = 0 THEN Arr(<<>>) ELSE Arr(h[rec.refs[f]])
          [] f = "source" -> rec.source
          [] OTHER -> FullTarget[f]]

\* the heap after mergeMetadata(enhancedMetadata, secondary): target.videos.push
\* (and the like, lines 483-488, 498-503, 513-519, 529-534, 544-549) appends to
\* the array the copy shares with the stored record; an empty or missing array is
\* replaced in the copy only (line 468)
PushedHeap(rec, h, secondary) ==
    LET target == EnhancedTarget(rec, h)
        after == mergeMetadata(target, secondary)
    IN  [r \in 1..Len(h) |->
            IF \E f \in UnionFields : rec.refs[f] = r /\ h[r] # <<>>
            THEN LET f == CHOOSE g \in UnionFields : rec.refs[g] = r IN after[f].a
            ELSE h[r]]

NoHanded == [k |-> "none"]
NoOp == [op |-> "none", id |-> "", ret |-> FALSE]

StoreInit ==
    /\ initialized = FALSE
    /\ initializationPromise = "null"
    /\ availableSources = <<>>
    /\ probe = [s \in SourceNames |-> "idle"]
    /\ probeCalls = [s \in SourceNames |-> 0]
    /\ pc = [c \in Callers |-> "idle"]
    /\ callOp = [c \in Callers |-> "none"]
    /\ mTarget = <<>> /\ mSource = <<>> /\ mBefore = <<>> /\ mOnce = <<>> /\ merges = 0
    /\ OpIdle
    /\ SanIdle
    /\ customMovies = SampleMovies
    /\ keyOrder = <<"custom-1", "custom-2">>
    /\ heap = SampleHeap
    /\ handed = NoHanded
    /\ handedSnap = NoHanded
    /\ prevStore = DeepStore(SampleMovies, SampleHeap)
    /\ written = DeepStore(SampleMovies, SampleHeap)
    /\ lastOp = NoOp
    /\ hits = <<>>
    /\ storeOps = 0
    /\ RateIdle
    /\ NetIdle
    /\ EnhIdle

\* addOrUpdateMovie(movie), lines 38-43 (through addOrUpdateCustomMovie)
StoreAdd(m) ==
    /\ storeOps < MaxStoreOps
    /\ LET obj == [Allocated(m, heap) EXCEPT !.source = "CustomDB"]
       IN  /\ customMovies' = [i \in DOMAIN customMovies \cup {m.id} |->
                                 IF i = m.id THEN obj ELSE customMovies[i]]
           /\ heap' = heap \o ArraysOf(m)
    /\ keyOrder' = IF m.id \in DOMAIN customMovies THEN keyOrder ELSE Append(keyOrder, m.id)
    /\ prevStore' = DeepStore(customMovies, heap)
    /\ written' = DeepStore(customMovies', heap')
    /\ lastOp' = [op |-> "add", id |-> m.id, ret |-> FALSE, movie |-> m]
    /\ storeOps' = storeOps + 1
    /\ UNCHANGED <<handed, handedSnap, hits>>
    /\ UNCHANGED <<svcVars, callerVars, mergeVars, opVars, sanVars, rateVars, netVars, enhVars>>

\* removeMovie(id), lines 46-53 (through removeCustomMovie)
StoreRemove(id) ==
    /\ storeOps < MaxStoreOps
    /\ customMovies' = [i \in DOMAIN customMovies \ {id} |-> customMovies[i]]
    /\ keyOrder' = SelectSeq(keyOrder, LAMBDA i : i # id)
    /\ prevStore' = DeepStore(customMovies, heap)
    /\ written' = DeepStore(customMovies', heap)
    /\ lastOp' = [op |-> "remove", id |-> id, ret |-> RemoveReturns(customMovies, id)]
    /\ storeOps' = storeOps + 1
    /\ UNCHANGED <<heap, handed, handedSnap, hits>>
    /\ UNCHANGED <<svcVars, callerVars, mergeVars, opVars, sanVars, rateVars, netVars, enhVars>>

\* getMovieMetadata(id) of the orchestrator with CustomDB first in the list: the
\* caller gets sanitizeMetadata's shallow copy of the stored record
StoreGet(id) ==
    /\ storeOps < MaxStoreOps
    /\ IF AdapterGet(customMovies, id).k = "record"
       THEN /\ handed' = [k |-> "record", rec |-> customMovies[id]]
            /\ handedSnap' = [k |-> "record", rec |-> Deep(customMovies[id], heap)]
       ELSE /\ handed' = NoHanded
            /\ handedSnap' = NoHanded
    /\ lastOp' = [op |-> "get", id |-> id, ret |-> FALSE]
    /\ storeOps' = storeOps + 1
    /\ UNCHANGED <<customMovies, keyOrder, heap, prevStore, written, hits>>
    /\ UNCHANGED <<svcVars, callerVars, mergeVars, opVars, sanVars, rateVars, netVars, enhVars>>

\* getEnhancedMetadata(id) with CustomDB first and one secondary adapter that
\* returns the record secondary
StoreEnhance(id, secondary) ==
    /\ storeOps < MaxStoreOps
    /\ heap' = IF AdapterGet(customMovies, id).k = "record"
               THEN PushedHeap(customMovies[id], heap, secondary)
               ELSE heap
    /\ lastOp' = [op |-> "enhance", id |-> id, ret |-> FALSE]
    /\ storeOps' = storeOps + 1
    /\ UNCHANGED <<customMovies, keyOrder, handed, handedSnap, prevStore, written, hits>>
    /\ UNCHANGED <<svcVars, callerVars, mergeVars, opVars, sanVars, rateVars, netVars, enhVars>>

\* searchMovies(q) and searchMoviesWithUpcoming(q) with CustomDB first
StoreSearch(q) ==
    /\ storeOps < MaxStoreOps
    /\ hits' = CustomSearch(customMovies, keyOrder, q)
    /\ lastOp' = [op |-> "search", id |-> q, ret |-> FALSE]
    /\ storeOps' = storeOps + 1
    /\ UNCHANGED <<customMovies, keyOrder, heap, handed, handedSnap, prevStore, written>>
    /\ UNCHANGED <<svcVars, callerVars, mergeVars, opVars, sanVars, rateVars, netVars, enhVars>>

StoreNext ==
    \/ \E m \in MovieInputs : StoreAdd(m)
    \/ \E id \in StoreIds : StoreRemove(id)
    \/ \E id \in StoreIds : StoreGet(id)
    \/ \E id \in StoreIds, secondary \in SecondaryRecords : StoreEnhance(id, secondary)
    \/ \E q \in StoreQueries : StoreSearch(q)

StoreSpec == StoreInit /\ [][StoreNext]_vars

(***************************************************************************)
(* Claims about the override store (StoreSpec).                            *)
(***************************************************************************)
\* C13: the contents of the store, the elements of the collections of its records
\* included, are what the last addOrUpdateMovie or removeMovie (or the
\* constructor) left, whatever reads came after; and a record handed to a caller
\* by getMovieMetadata still has the field values it was handed over with.
C13_StoreChangedOnlyByWrites ==
    /\ DeepStore(customMovies, heap) = written
    /\ handed.k = "record" => Deep(handed.rec, heap) = handedSnap.rec

\* every entry but the one for id is as it was before the last write
OthersUnchanged(id) ==
    \A i \in StoreIds \ {id} :
        /\ i \in DOMAIN customMovies <=> i \in DOMAIN prevStore
        /\ i \in DOMAIN customMovies => Deep(customMovies[i], heap) = prevStore[i]

\* C14: right after addOrUpdateMovie(r) the adapter's getMovieMetadata(r.id) gives
\* r with source CustomDB; right after removeMovie(id) its return value tells
\* whether an entry for id existed, getMovieMetadata(id) gives absent and another
\* removeMovie(id) would return false; either way the other entries are as before.
C14_StoreRoundTrip ==
    /\ lastOp.op = "add" =>
          /\ AdapterGet(customMovies, lastOp.id).k = "record"
          /\ Deep(customMovies[lastOp.id], heap) = [lastOp.movie EXCEPT !.source = "CustomDB"]
          /\ OthersUnchanged(lastOp.id)
    /\ lastOp.op = "remove" =>
          /\ lastOp.ret <=> lastOp.id \in DOMAIN prevStore
          /\ AdapterGet(customMovies, lastOp.id).k = "absent"
          /\ ~RemoveReturns(customMovies, lastOp.id)
          /\ OthersUnchanged(lastOp.id)

(***************************************************************************)
(* RatingSpec: the rating MovieLensAdapter puts in a record or a search    *)
(* result (src/lib/metadata/movielens-adapter.ts, lines 68, 118, 131-152). *)
(* Ratings are counted in tenths, so 2.5 is 25 and the 0-10 scale is       *)
(* 0..100.                                                                 *)
(***************************************************************************)
\* the identifiers Number.parseInt yields in the model
TmdbIds == (0 - MaxTmdbId)..MaxTmdbId

\* the vote_average of the provider's answer, in tenths
VoteAverages == {0, 73, 100}

\* the % of JavaScript: the remainder has the sign of the dividend
JsRem(a, n) == IF a >= 0 THEN a % n ELSE 0 - ((0 - a) % n)

\* Math.min
MathMin(a, b) == IF a < b THEN a ELSE b

\* fetchMovieLensRatings(tmdbId).averageRating, lines 138-142, in tenths
AverageRating(tmdbId) == MathMin(50, 25 + JsRem(tmdbId, 50))

\* normalizeRating(rating, 5) of base-adapter.ts, line 23: (rating / 5) * 10, in
\* tenths
NormalizeFiveStar(rating) == rating * 2

\* the rating field, lines 68 and 118: a falsy average gives way to vote_average
MovieLensRating(tmdbId, voteAverage) ==
    IF AverageRating(tmdbId) # 0
    THEN NormalizeFiveStar(AverageRating(tmdbId))
    ELSE voteAverage

RateInit ==
    /\ initialized = FALSE
    /\ initializationPromise = "null"
    /\ availableSources = <<>>
    /\ probe = [s \in SourceNames |-> "idle"]
    /\ probeCalls = [s \in SourceNames |-> 0]
    /\ pc = [c \in Callers |-> "idle"]
    /\ callOp = [c \in Callers |-> "none"]
    /\ mTarget = <<>> /\ mSource = <<>> /\ mBefore = <<>> /\ mOnce = <<>> /\ merges = 0
    /\ OpIdle
    /\ SanIdle
    /\ StoreIdle
    /\ NetIdle
    /\ EnhIdle
    /\ mlId \in TmdbIds
    /\ mlVote \in VoteAverages
    /\ mlRating = 0
    /\ mlRated = FALSE

\* the adapter builds a record (or a search result) for the identifier
Rate ==
    /\ ~mlRated
    /\ mlRating' = MovieLensRating(mlId, mlVote)
    /\ mlRated' = TRUE
    /\ UNCHANGED <<mlId, mlVote>>
    /\ UNCHANGED <<svcVars, callerVars, mergeVars, opVars, sanVars, storeVars, netVars, enhVars>>

RateNext == Rate

RatingSpec == RateInit /\ [][RateNext]_vars

\* C17: the rating the MovieLens adapter puts in a record lies between 0 and 10
\* (0 and 100 tenths), for every integer identifier, negative ones included.
C17_RatingInRange == mlRated => (0 <= mlRating /\ mlRating <= 100)

(***************************************************************************)
(* AdapterSpec: one call of isAvailable, searchMovies or getMovieMetadata  *)
(* of one of the eight adapters, seen as the sequence of its outbound      *)
(* fetches. A fetch is answered (well or with a failure: network error,    *)
(* non-2xx status, malformed body) or never answered; a fetch made with an *)
(* AbortController and the 5000 ms timer is aborted when unanswered.       *)
(***************************************************************************)
AdapterNames == Range(Registration)

AdapterOps == {"isAvailable", "searchMovies", "getMovieMetadata"}

\* the environment variables the adapters read their credentials from
EnvNames ==
    {"NEXT_PUBLIC_TMDB_API_KEY", "OMDB_API_KEY", "MOVIELENS_API_KEY", "TMPDB_API_KEY",
     "YOUTUBE_API_KEY", "OPEN_MEDIA_API_KEY"}

\* the adapters that read a credential (Wikidata and CustomDB read none)
HasCredential(a) == a \notin {"CustomDB", "Wikidata"}

\* the module-level key constant of adapter a is set to something other than its
\* placeholder, given the set env of environment variables that are set
Configured(a, env) ==
    CASE a = "TMDB" -> "NEXT_PUBLIC_TMDB_API_KEY" \in env
      [] a = "OMDB" -> "OMDB_API_KEY" \in env
      [] a = "MovieLens" -> "MOVIELENS_API_KEY" \in env \/ "NEXT_PUBLIC_TMDB_API_KEY" \in env
      [] a = "TMPDB" -> "TMPDB_API_KEY" \in env \/ "NEXT_PUBLIC_TMDB_API_KEY" \in env
      [] a = "YouTube" -> "YOUTUBE_API_KEY" \in env
      [] a = "OpenMedia" -> "OPEN_MEDIA_API_KEY" \in env \/ "OMDB_API_KEY" \in env
      [] OTHER -> TRUE

\* one fetch of a call: timed when it carries the abort signal of the 5000 ms
\* timer; keyed when the adapter tests its key before it and returns without the
\* fetch when the key is not configured; onFail tells whether a failure of the
\* fetch ends the call or is swallowed by an inner catch
Fetch(timed, keyed, onFail) == [timed |-> timed, keyed |-> keyed, onFail |-> onFail]

\* the fetches of each call, for an identifier that needs every look-up the
\* adapter has (a TMDB number for YouTube and OpenMedia, a title for the others)
NetPlan(a, o) ==
    CASE a = "CustomDB" -> <<>>
      [] a = "TMDB" /\ o \in {"isAvailable", "searchMovies"} ->
            <<Fetch(FALSE, FALSE, "end"), Fetch(FALSE, FALSE, "end")>>
      [] a = "TMDB" /\ o = "getMovieMetadata" ->
            <<Fetch(FALSE, FALSE, "end"), Fetch(FALSE, FALSE, "swallow"),
              Fetch(FALSE, FALSE, "swallow"), Fetch(FALSE, FALSE, "swallow")>>
      [] a \in {"OMDB", "MovieLens"} /\ o \in {"isAvailable", "searchMovies"} ->
            <<Fetch(TRUE, TRUE, "end")>>
      [] a \in {"OMDB", "MovieLens"} /\ o = "getMovieMetadata" ->
            <<Fetch(TRUE, TRUE, "end"), Fetch(TRUE, TRUE, "end")>>
      [] a = "TMPDB" /\ o \in {"isAvailable", "searchMovies"} ->
            <<Fetch(TRUE, TRUE, "end")>>
      [] a = "TMPDB" /\ o = "getMovieMetadata" ->
            <<Fetch(TRUE, TRUE, "end"), Fetch(TRUE, TRUE, "end"), Fetch(FALSE, TRUE, "end")>>
      [] a = "YouTube" /\ o = "isAvailable" -> <<Fetch(TRUE, TRUE, "end")>>
      [] a = "YouTube" /\ o = "searchMovies" -> <<Fetch(FALSE, TRUE, "end")>>
      [] a = "YouTube" /\ o = "getMovieMetadata" ->
            <<Fetch(FALSE, FALSE, "end"), Fetch(FALSE, TRUE, "end")>>
      [] a = "Wikidata" /\ o \in {"isAvailable", "searchMovies"} ->
            <<Fetch(FALSE, FALSE, "end"), Fetch(FALSE, FALSE, "swallow")>>
      [] a = "Wikidata" /\ o = "getMovieMetadata" ->
            <<Fetch(FALSE, FALSE, "end"), Fetch(FALSE, FALSE, "end")>>
      [] a = "OpenMedia" /\ o \in {"isAvailable", "searchMovies"} ->
            <<Fetch(TRUE, TRUE, "end")>>
      [] a = "OpenMedia" /\ o = "getMovieMetadata" ->
            <<Fetch(FALSE, TRUE, "swallow"), Fetch(TRUE, TRUE, "end"),
              Fetch(TRUE, TRUE, "end")>>

\* variant: the inherited isAvailable reports a failed searchMovies as false
FailureValue_ProbeFails(a, o) ==
    CASE o = "isAvailable" -> "false"
      [] o = "searchMovies" -> "empty"
      [] o = "getMovieMetadata" -> "absent"

\* what a call settles to when a step fails or the key is missing: the catch
\* blocks return false, [] and null; the inherited isAvailable of TMDB and
\* Wikidata (base-adapter.ts, lines 10-20) sees the [] of searchMovies and
\* returns Array.isArray([])
FailureValue(a, o) ==
    CASE o = "isAvailable" -> IF a \in {"TMDB", "Wikidata"} THEN "true" ELSE "false"
      [] o = "searchMovies" -> "empty"
      [] o = "getMovieMetadata" -> "absent"

\* what a call settles to when every step went well; CustomDB's searchMovies
\* (custom-db-adapter.ts, lines 26-27) calls movie.title.toLowerCase() on every
\* stored record outside any try block
SuccessValue(a, o, titled) ==
    CASE o = "isAvailable" -> "true"
      [] o = "searchMovies" -> IF a = "CustomDB" /\ ~titled THEN "raise" ELSE "list"
      [] o = "getMovieMetadata" -> "record"

AdapterInit ==
    /\ initialized = FALSE
    /\ initializationPromise = "null"
    /\ availableSources = <<>>
    /\ probe = [s \in SourceNames |-> "idle"]
    /\ probeCalls = [s \in SourceNames |-> 0]
    /\ pc = [c \in Callers |-> "idle"]
    /\ callOp = [c \in Callers |-> "none"]
    /\ mTarget = <<>> /\ mSource = <<>> /\ mBefore = <<>> /\ mOnce = <<>> /\ merges = 0
    /\ OpIdle
    /\ SanIdle
    /\ StoreIdle
    /\ RateIdle
    /\ EnhIdle
    /\ envSet \in SUBSET EnvNames
    /\ aName = ""
    /\ aOp = ""
    /\ storeTitled = TRUE
    /\ aPc = "idle"
    /\ fetchIdx = 0
    /\ netCalls = 0
    /\ silent = FALSE
    /\ aResult = ""

\* the call of adapter a goes on with step i of its plan after count fetches: it
\* settles when the plan is through or when the key test before the step fails,
\* and issues the fetch otherwise; the provider answers it or stays silent
Proceed(a, o, titled, i, count) ==
    IF i > Len(NetPlan(a, o))
    THEN /\ aPc' = "settled"
         /\ aResult' = SuccessValue(a, o, titled)
         /\ UNCHANGED <<fetchIdx, silent>>
         /\ netCalls' = count
    ELSE IF NetPlan(a, o)[i].keyed /\ ~Configured(a, envSet)
         THEN /\ aPc' = "settled"
              /\ aResult' = FailureValue(a, o)
              /\ UNCHANGED <<fetchIdx, silent>>
              /\ netCalls' = count
         ELSE /\ aPc' = "fetch"
              /\ fetchIdx' = i
              /\ netCalls' = count + 1
              /\ \E answers \in BOOLEAN : silent' = ~answers
              /\ aResult' = aResult

\* adapter a is called; titled tells whether every record of the override store
\* has a title string
StartCall(a, o, titled) ==
    /\ aPc = "idle"
    /\ aName' = a
    /\ aOp' = o
    /\ storeTitled' = titled
    /\ Proceed(a, o, titled, 1, 0)
    /\ UNCHANGED envSet
    /\ UNCHANGED <<svcVars, callerVars, mergeVars, opVars, sanVars, storeVars, rateVars, enhVars>>

\* the step after the fetch in flight has ended, well or not
AfterFetch(outcome) ==
    IF outcome = "ok" \/ NetPlan(aName, aOp)[fetchIdx].onFail = "swallow"
    THEN Proceed(aName, aOp, storeTitled, fetchIdx + 1, netCalls)
    ELSE /\ aPc' = "settled"
         /\ aResult' = FailureValue(aName, aOp)
         /\ UNCHANGED <<fetchIdx, netCalls, silent>>

\* the provider answers the fetch in flight
Respond(outcome) ==
    /\ aPc = "fetch"
    /\ ~silent
    /\ AfterFetch(outcome)
    /\ UNCHANGED <<envSet, aName, aOp, storeTitled>>
    /\ UNCHANGED <<svcVars, callerVars, mergeVars, opVars, sanVars, storeVars, rateVars, enhVars>>

RespondSome == \E outcome \in {"ok", "fail"} : Respond(outcome)

\* setTimeout(() => controller.abort(), 5000) fires: the fetch in flight rejects
Abort ==
    /\ aPc = "fetch"
    /\ silent
    /\ NetPlan(aName, aOp)[fetchIdx].timed
    /\ AfterFetch("fail")
    /\ UNCHANGED <<envSet, aName, aOp, storeTitled>>
    /\ UNCHANGED <<svcVars, callerVars, mergeVars, opVars, sanVars, storeVars, rateVars, enhVars>>

\* the caller has the value of the call
Finish ==
    /\ aPc = "settled"
    /\ aPc' = "idle"
    /\ aName' = ""
    /\ aOp' = ""
    /\ storeTitled' = TRUE
    /\ fetchIdx' = 0
    /\ netCalls' = 0
    /\ silent' = FALSE
    /\ aResult' = ""
    /\ UNCHANGED envSet
    /\ UNCHANGED <<svcVars, callerVars, mergeVars, opVars, sanVars, storeVars, rateVars, enhVars>>

AdapterNext ==
    \/ \E a \in AdapterNames, o \in AdapterOps, titled \in BOOLEAN :
          (titled \/ a = "CustomDB") /\ StartCall(a, o, titled)
    \/ RespondSome
    \/ Abort
    \/ Finish

AdapterSpec == AdapterInit /\ [][AdapterNext]_vars

\* a provider that answers does so in the end, and an armed timer fires
FairAdapterSpec == AdapterSpec /\ WF_vars(RespondSome) /\ WF_vars(Abort) /\ WF_vars(Finish)

(***************************************************************************)
(* Claims about the adapters (AdapterSpec, FairAdapterSpec).               *)
(***************************************************************************)
\* C15: every adapter call that has a fetch in flight settles in the end, also
\* when the provider never answers, because the abort timer ends the fetch.
C15_CallsSettle == (aPc = "fetch") ~> (aPc = "settled")

\* C16: when isAvailable of an adapter whose key is not configured has settled,
\* it has settled to false and no fetch was issued.
C16_UnconfiguredUnavailable ==
    (aPc = "settled" /\ aOp = "isAvailable" /\ HasCredential(aName)
        /\ ~Configured(aName, envSet)) =>
        (aResult = "false" /\ netCalls = 0)

\* C18: no adapter call raises to its caller: searchMovies settles to a list
\* (empty after a failure), getMovieMetadata to a record or to absent, and
\* isAvailable to true or false.
C18_AdaptersNeverRaise ==
    aPc = "settled" =>
        CASE aOp = "searchMovies" -> aResult \in {"list", "empty"}
          [] aOp = "getMovieMetadata" -> aResult \in {"record", "absent"}
          [] OTHER -> aResult \in {"true", "false"}

\* the adapters that inherit isAvailable from BaseMetadataAdapter
DefaultCheckAdapters == {"TMDB", "Wikidata"}

\* C28: when isAvailable of TMDB or of Wikidata has settled, after whatever
\* answers or failures of its fetches, it has settled to true, and the filter of
\* the probe round keeps the adapter on that answer.
C28_DefaultCheckAlwaysAvailable ==
    (aPc = "settled" /\ aOp = "isAvailable" /\ aName \in DefaultCheckAdapters) =>
        /\ aResult = "true"
        /\ aName \in SourceNames =>
              aName \in Range(ProbedAvailable([s \in SourceNames |->
                                  IF s = aName THEN aResult ELSE "false"]))

\* C28 witness: TMDB's isAvailable has settled to true after one fetch, that is
\* after the first fetch of its searchMovies failed.
C28_Witness ==
    /\ aPc = "settled"
    /\ aOp = "isAvailable"
    /\ aName = "TMDB"
    /\ netCalls = 1
    /\ aResult = "true"

(***************************************************************************)
(* Claims about searchMoviesWithUpcoming (OpSpec).                         *)
(***************************************************************************)
\* the entries of list whose title contains q without regard to case and whose
\* identifier is not the identifier of an entry of R
C19_Appended(R, list, q) ==
    SelectSeq(list, LAMBDA m : /\ Includes(LowerTitle(m.title), LowerTitle(q))
                              /\ \A i \in 1..Len(R) : R[i].id # m.id)

\* the result of searchMoviesWithUpcoming when short tells whether the query
\* counts as too short: R alone and no consultation when R has five entries or
\* the query is short, otherwise one consultation and R followed by the matching
\* entries not in R (R alone when the consultation failed)
C19_ResultIs(short) ==
    LET R == searchResults
    IN  /\ result.k = "list"
        /\ Len(result.list) >= Len(R)
        /\ SubSeq(result.list, 1, Len(R)) = R
        /\ \A j \in (Len(R) + 1)..Len(result.list) :
              \A i \in 1..Len(R) : result.list[j].id # R[i].id
        /\ IF Len(R) >= 5 \/ short
           THEN upcomingLog = <<>> /\ result.list = R
           ELSE /\ Len(upcomingLog) = 1
                /\ result.list =
                      IF upcomingLog[1].k = "ok"
                      THEN R \o C19_Appended(R, upcomingLog[1].list, query)
                      ELSE R

\* C19 as stated: searchMoviesWithUpcoming(q) returns the searchMovies result R
\* unchanged when R has 5 or more entries or q has fewer than 3 characters;
\* otherwise, and only then, the upcoming list is consulted and the result is R
\* followed by the upcoming entries whose title contains q and whose identifier
\* is not in R; R when the consultation fails.
C19_UpcomingByLength ==
    (op = "searchMoviesWithUpcoming" /\ opc = "done") => C19_ResultIs(Len(query) < 3)

\* C19 amended: the same with the length of q taken after trimming the white
\* space at both ends of q.
C19_UpcomingByTrimmedLength ==
    (op = "searchMoviesWithUpcoming" /\ opc = "done") => C19_ResultIs(Len(Trim(query)) < 3)

\* C19 witness: two results of the TMDB adapter for the query Dune, and the
\* upcoming list consulted: TMDB-1 is in both and appears once, DUNE Messiah is
\* appended, Arrival is not.
C19_Witness ==
    /\ op = "searchMoviesWithUpcoming"
    /\ opc = "done"
    /\ query = "Dune"
    /\ searchResults = MkResults("TMDB", 2)
    /\ Len(upcomingLog) = 1
    /\ Len(upcomingLog[1].list) = 3
    /\ result.list = MkResults("TMDB", 2) \o <<[id |-> "TMDB-7", title |-> "DUNE Messiah"]>>

(***************************************************************************)
(* OfflineSpec: the service with no credential configured. The override    *)
(* store holds its sample records; isAvailable of CustomDatabaseAdapter    *)
(* returns true (custom-db-adapter.ts, lines 57-60); the probes and the    *)
(* searches of the network adapters settle to any of their outcomes.       *)
(***************************************************************************)
NetworkSources == SourceNames \ {"CustomDB"}

\* what source.searchMovies(q) settles to: the store's matches for CustomDB, the
\* oracle's answer for a network adapter
SourceSearch(source, q, oracle) ==
    IF source = "CustomDB"
    THEN LET found == CustomSearch(customMovies, keyOrder, q)
         IN  [k |-> "ok", n |-> Len(found), list |-> found]
    ELSE [k |-> oracle[source].k, n |-> oracle[source].n,
          list |-> MkResults(source, oracle[source].n)]

\* MetadataService.searchMovies, lines 316-350: the list of the first adapter of
\* avail, from position i on, whose search gives a non-empty list; [] when none
RECURSIVE ServiceSearch(_, _, _, _)
ServiceSearch(avail, i, q, oracle) ==
    IF i > Len(avail)
    THEN <<>>
    ELSE LET outcome == SourceSearch(avail[i], q, oracle)
         IN  IF SearchEffect(outcome) = "return"
             THEN outcome.list
             ELSE ServiceSearch(avail, i + 1, q, oracle)

OfflineInit ==
    /\ initialized = FALSE
    /\ initializationPromise = "null"
    /\ availableSources = <<>>
    /\ probe = [s \in SourceNames |-> "idle"]
    /\ probeCalls = [s \in SourceNames |-> 0]
    /\ pc = [c \in Callers |-> "idle"]
    /\ callOp = [c \in Callers |-> "none"]
    /\ mTarget = <<>> /\ mSource = <<>> /\ mBefore = <<>> /\ mOnce = <<>> /\ merges = 0
    /\ OpIdle
    /\ SanIdle
    /\ customMovies = SampleMovies
    /\ keyOrder = <<"custom-1", "custom-2">>
    /\ heap = SampleHeap
    /\ handed = NoHanded
    /\ handedSnap = NoHanded
    /\ prevStore = DeepStore(SampleMovies, SampleHeap)
    /\ written = DeepStore(SampleMovies, SampleHeap)
    /\ lastOp = NoOp
    /\ hits = <<>>
    /\ storeOps = 0
    /\ RateIdle
    /\ NetIdle
    /\ EnhIdle

\* one isAvailable() promise settles; that of CustomDB to true
OfflineSettle ==
    \E s \in SourceNames, outcome \in ProbeOutcomes :
        /\ s = "CustomDB" => outcome = "true"
        /\ ProbeSettle(s, outcome)

\* searchMovies(q) on the Ready service, from line 316 to its return
OfflineSearch(q, oracle) ==
    /\ initialized
    /\ hits' = ServiceSearch(availableSources, 1, q, oracle)
    /\ lastOp' = [op |-> "searchMovies", id |-> q, ret |-> FALSE]
    /\ UNCHANGED <<customMovies, keyOrder, heap, handed, handedSnap, prevStore, written,
                   storeOps>>
    /\ UNCHANGED <<svcVars, callerVars, mergeVars, opVars, sanVars, rateVars, netVars, enhVars>>

OfflineNext ==
    \/ \E c \in Callers, o \in InitOps : CallStartsRound(c, o)
    \/ \E c \in Callers, o \in InitOps : CallJoinsRound(c, o)
    \/ \E c \in Callers, o \in InitOps : CallWhenReady(c, o)
    \/ OfflineSettle
    \/ AggregateSome
    \/ \E c \in Callers : Resume(c)
    \/ \E c \in Callers : Return(c)
    \/ \E q \in StoreQueries, oracle \in [NetworkSources -> SearchOutcomes] :
          OfflineSearch(q, oracle)

OfflineSpec == OfflineInit /\ [][OfflineNext]_vars

\* the event loop runs every continuation that is ready, and every isAvailable()
\* promise of the round settles
FairOfflineSpec == OfflineSpec /\ WF_vars(OfflineSettle) /\ WF_vars(AggregateSome)

(***************************************************************************)
(* Claims about the service with no credential configured (FairOfflineSpec)*)
(***************************************************************************)
\* the Ready service has CustomDB first in its available list, and every
\* searchMovies("inception") has returned the sample record custom-1 alone
C20_CustomFirstAndFound ==
    /\ initialized =>
          /\ availableSources # <<>>
          /\ availableSources[1] = "CustomDB"
    /\ (lastOp.op = "searchMovies" /\ lastOp.id = "inception") =>
          hits = <<[id |-> "custom-1", title |-> "Inception"]>>

addOrUpdateCustomMovie(m) == lastOp = NoOp /\ StoreAdd(m)

\* removeCustomMovie(id), lines 449-451
removeCustomMovie(id) == lastOp = NoOp /\ StoreRemove(id)

PassthroughNext ==
    \/ \E c \in Callers, o \in InitOps : CallStartsRound(c, o)
    \/ \E c \in Callers, o \in InitOps : CallJoinsRound(c, o)
    \/ \E c \in Callers, o \in InitOps : CallWhenReady(c, o)
    \/ SettleSome
    \/ AggregateSome
    \/ \E c \in Callers : Resume(c)
    \/ \E c \in Callers : Return(c)
    \/ \E m \in MovieInputs : addOrUpdateCustomMovie(m)
    \/ \E id \in StoreIds : removeCustomMovie(id)

PassthroughSpec == OfflineInit /\ [][PassthroughNext]_vars

(***************************************************************************)
(* Claims about the passthroughs (PassthroughSpec).                        *)
(***************************************************************************)
\* C27: an operation's body runs, and a passthrough's write to the override
\* store has happened, only in a service that is Ready, and once a passthrough
\* has been called initialization has been started.
C27_EveryOperationInitializes ==
    /\ \A c \in Callers : pc[c] \in {"body", "resumed"} => initialized
    /\ lastOp # NoOp => (initialized /\ initializationPromise # "null")

(***************************************************************************)
(* ReadySpec: every public operation next to each other. The operations   *)
(* of OpSpec, the passthroughs, and initialize() called again on the Ready *)
(* service by one further caller.                                          *)
(***************************************************************************)
\* variant: initialize() on a Ready service runs the probe round again
ListAfterInitialize_Reprobe(avail, outcomes) == AggregateAvailable(outcomes)

\* this.availableSources after initialize() on a Ready service: line 202 returns
\* before anything is assigned
ListAfterInitialize(avail, outcomes) == avail

\* what the adapters would answer to a probe made later: all reachable, none
\* reachable, all failing
LaterOutcomes == {[s \in SourceNames |-> o] : o \in ProbeOutcomes}

ReadyInit ==
    /\ initialized = FALSE
    /\ initializationPromise = "null"
    /\ availableSources = <<>>
    /\ probe = [s \in SourceNames |-> "idle"]
    /\ probeCalls = [s \in SourceNames |-> 0]
    /\ pc = [c \in Callers |-> "idle"]
    /\ callOp = [c \in Callers |-> "none"]
    /\ mTarget = <<>> /\ mSource = <<>> /\ mBefore = <<>> /\ mOnce = <<>> /\ merges = 0
    /\ OpIdle
    /\ SanIdle
    /\ customMovies = SampleMovies
    /\ keyOrder = <<"custom-1", "custom-2">>
    /\ heap = SampleHeap
    /\ handed = NoHanded
    /\ handedSnap = NoHanded
    /\ prevStore = DeepStore(SampleMovies, SampleHeap)
    /\ written = DeepStore(SampleMovies, SampleHeap)
    /\ lastOp = NoOp
    /\ hits = <<>>
    /\ storeOps = 0
    /\ RateIdle
    /\ NetIdle
    /\ EnhIdle

\* a caller calls initialize() on the Ready service, lines 200-202; outcomes is
\* what the adapters' isAvailable() would answer now
InitializeAgain(c, outcomes) ==
    /\ initialized
    /\ pc[c] = "idle"
    /\ pc' = [pc EXCEPT ![c] = "body"]
    /\ callOp' = [callOp EXCEPT ![c] = "initialize"]
    /\ availableSources' = ListAfterInitialize(availableSources, outcomes)
    /\ UNCHANGED <<initialized, initializationPromise, probe, probeCalls>>
    /\ UNCHANGED <<mergeVars, opVars, otherVars>>

ReadyNext ==
    \/ OpNext
    \/ \E outcomes \in LaterOutcomes : InitializeAgain(1, outcomes)
    \/ Return(1)
    \/ \E m \in MovieInputs : addOrUpdateCustomMovie(m)
    \/ \E id \in StoreIds : removeCustomMovie(id)

ReadySpec == ReadyInit /\ [][ReadyNext]_vars

(***************************************************************************)
(* Claims about the available list of the Ready service (ReadySpec).       *)
(***************************************************************************)
\* the adapters the operation in progress has called so far
QueriedAdapters ==
    Range(fetchLog) \cup Range(secLog) \cup {e[1] : e \in Range(searchLog)}
        \cup (IF upcomingLog # <<>> THEN {"TMDB"} ELSE {})

\* C29: in the Ready service the available list holds no adapter twice and every
\* adapter an operation has called is in it; and no step taken in the Ready
\* service (of a fetch, a search, an enhancement, a passthrough or a further
\* initialize()) changes the list.
C29_AvailableListFixed ==
    /\ [](initialized =>
            /\ \A i, j \in DOMAIN availableSources :
                  availableSources[i] = availableSources[j] => i = j
            /\ QueriedAdapters \subseteq Range(availableSources))
    /\ [][initialized => availableSources' = availableSources]_vars

\* C29 witness: on a Ready service whose probe round left OMDB out, a fetch has
\* gone through the whole list, the store has been written through a
\* passthrough and initialize() has been called again.
C29_Witness ==
    /\ initialized
    /\ "OMDB" \notin Range(availableSources)
    /\ Len(fetchLog) = Len(availableSources)
    /\ lastOp # NoOp
    /\ \E c \in Callers : callOp[c] = "initialize"

(***************************************************************************)
(* EnhanceSpec: getEnhancedMetadata (lines 395-442) on records. The list   *)
(* of available adapters and the identifier are given; the adapter at some *)
(* position gives the primary record, the adapters before it gave null or  *)
(* threw; every secondary adapter answers with null, an exception or a     *)
(* record; the records are merged by mergeMetadata, and the value returned *)
(* is sanitized.                                                           *)
(***************************************************************************)
\* the provider keys of ExternalIds, src/types/metadata
EnhExtKeys == {"imdb", "tmdb", "wikidata", "movieLens"}

EnhIds(imdb, tmdb, wikidata, movieLens) ==
    Ext([imdb |-> imdb, tmdb |-> tmdb, wikidata |-> wikidata, movieLens |-> movieLens])

\* available lists the probe round can leave: in priority order, and with TMDB
\* pushed to the end after a probe that excluded it
EnhAvailLists ==
    {<<"CustomDB", "TMDB", "OMDB">>,
     <<"CustomDB", "TMDB", "MovieLens", "Wikidata">>,
     <<"CustomDB", "OMDB", "YouTube", "TMDB">>}

\* the identifiers callers pass
EnhInputIds == {"custom-1", "603"}

\* records a primary adapter s can return
PrimaryBare(s) == [f \in Fields |-> IF f = "source" THEN s ELSE AbsentOf(f)]

\* in the shape of the sample record custom-1 (custom-db-adapter.ts, lines 64-88)
PrimaryOverride(s) ==
    [budget |-> NumAbsent, overview |-> "text", writers |-> Arr(<<"w1">>),
     videos |-> ArrAbsent,
     cast |-> Arr(<<[id |-> "c1", name |-> "Leo"]>>),
     crew |-> ArrAbsent,
     genres |-> Arr(<<"Drama">>),
     similar |-> ArrAbsent,
     externalIds |-> EnhIds("tt1", "27205", Absent, Absent),
     source |-> s]

PrimaryRecords(s) ==
    {PrimaryBare(s),
     PrimaryOverride(s),
     [PrimaryBare(s) EXCEPT !.budget = NumNaN,
                            !.externalIds = EnhIds("tt1", "27205", "Q1", "ml-1")],
     [PrimaryBare(s) EXCEPT !.budget = NumNull, !.overview = Null, !.cast = ArrNull],
     [PrimaryOverride(s) EXCEPT !.externalIds = EnhIds("", Undef, "Q1", Absent)],
     [PrimaryOverride(s) EXCEPT !.budget = Num(100),
                                !.videos = Arr(<<[id |-> "v1", key |-> "k1"]>>)]}

\* records a secondary adapter s can return: nothing but its name; an empty cast
\* and a budget; every field, with values and keys of its own; fields that are
\* own keys without a usable value
SecondaryBare(s) == [f \in Fields |-> IF f = "source" THEN s ELSE AbsentOf(f)]

SecondaryBudget(s) ==
    [SecondaryBare(s) EXCEPT !.cast = Arr(<<>>), !.budget = Num(100 + Priority(s))]

SecondaryFull(s) ==
    [budget |-> Num(200 + Priority(s)), overview |-> "by " \o s, writers |-> Arr(<<s>>),
     videos |-> Arr(<<[id |-> "v1", key |-> "k1"], [id |-> s, key |-> "key-" \o s]>>),
     cast |-> Arr(<<[id |-> s, name |-> IF Priority(s) % 2 = 0 THEN "Tom" ELSE "LEO"]>>),
     crew |-> Arr(<<[name |-> "Ann", job |-> "Director"]>>),
     genres |-> Arr(<<IF Priority(s) % 2 = 0 THEN "Crime" ELSE "DRAMA">>),
     similar |-> Arr(<<[id |-> "sim-" \o s, title |-> "A"]>>),
     externalIds |-> EnhIds("tt-" \o s, Absent, Absent, "ml-" \o s),
     source |-> s]

SecondaryHollow(s) ==
    [SecondaryBare(s) EXCEPT !.budget = NumNaN, !.overview = Undef, !.cast = ArrNull,
                             !.writers = Arr(<<>>)]

\* what source.getMovieMetadata(sourceId, options) of a secondary adapter settles to
SecondaryOutcomes(s) ==
    {[k |-> "absent", rec |-> <<>>], [k |-> "throw", rec |-> <<>>]}
        \cup {[k |-> "record", rec |-> r] :
                r \in {SecondaryBare(s), SecondaryBudget(s), SecondaryFull(s),
                       SecondaryHollow(s)}}

\* a truthy id: not undefined, not null, not the empty string
IdKnown(v) == v \notin {Absent, Undef, Null, ""}

\* variant: the ids are read from the record being enhanced
IdRecord_Enhanced(primary, enhanced) == enhanced

\* lines 416-426 read primaryMetadata.externalIds
IdRecord(primary, enhanced) == primary

\* lines 415-427: the identifier passed to secondary adapter s
SourceId(s, rec, id) ==
    LET ext == rec.externalIds
        Known(key) == ext.m[key]
    IN  IF ext.k # "obj" THEN id
        ELSE CASE s = "OMDB" /\ IdKnown(Known("imdb")) -> Known("imdb")
               [] s = "TMDB" /\ IdKnown(Known("tmdb")) -> Known("tmdb")
               [] s = "Wikidata" /\ IdKnown(Known("wikidata")) -> Known("wikidata")
               [] s = "MovieLens" /\ IdKnown(Known("movieLens")) -> Known("movieLens")
               [] OTHER -> id

\* variant: getMovieMetadata returning the adapter's record as it is
FetchedPrimary_Unsanitized(raw) == raw

\* line 310: getMovieMetadata returns this.sanitizeMetadata(metadata)
FetchedPrimary(raw) == sanitizeMetadata(raw)

\* variant: the list of secondaries without the filter
SecondariesOf_All(avail, primarySource) == avail

\* line 411
SecondariesOf(avail, primarySource) == SelectSeq(avail, LAMBDA s : s # primarySource)

EnhInit ==
    /\ initialized = FALSE
    /\ initializationPromise = "null"
    /\ availableSources = <<>>
    /\ probe = [s \in SourceNames |-> "idle"]
    /\ probeCalls = [s \in SourceNames |-> 0]
    /\ pc = [c \in Callers |-> "idle"]
    /\ callOp = [c \in Callers |-> "none"]
    /\ mTarget = <<>> /\ mSource = <<>> /\ mBefore = <<>> /\ mOnce = <<>> /\ merges = 0
    /\ OpIdle
    /\ SanIdle
    /\ StoreIdle
    /\ RateIdle
    /\ NetIdle
    /\ eAvail \in EnhAvailLists
    /\ eId \in EnhInputIds
    /\ eRaw = <<>>
    /\ ePrimary = <<>>
    /\ eEnhanced = <<>>
    /\ eIdx = 0
    /\ eLog = <<>>
    /\ ePc = "idle"
    /\ eResult = <<>>

\* lines 399-411: getMovieMetadata gave the record raw of the adapter at position p
EnhPrimary(p, raw) ==
    /\ ePc = "idle"
    /\ eRaw' = raw
    /\ ePrimary' = FetchedPrimary(raw)
    /\ eEnhanced' = ePrimary'
    /\ eIdx' = 1
    /\ ePc' = IF SecondariesOf(eAvail, ePrimary'.source) = <<>> THEN "merged" ELSE "enhance"
    /\ UNCHANGED <<eAvail, eId, eLog, eResult>>
    /\ UNCHANGED <<svcVars, callerVars, mergeVars, opVars, sanVars, storeVars, rateVars,
                   netVars>>

\* lines 400-404: no adapter has the identifier
EnhAbsent ==
    /\ ePc = "idle"
    /\ eResult' = SanNull
    /\ ePc' = "done"
    /\ UNCHANGED <<eAvail, eId, eRaw, ePrimary, eEnhanced, eIdx, eLog>>
    /\ UNCHANGED <<svcVars, callerVars, mergeVars, opVars, sanVars, storeVars, rateVars,
                   netVars>>

\* one round of the loop of lines 413-439
EnhStep(outcome) ==
    /\ ePc = "enhance"
    /\ LET secondarySources == SecondariesOf(eAvail, ePrimary.source)
           source == secondarySources[eIdx]
           sourceId == SourceId(source, IdRecord(ePrimary, eEnhanced), eId)
       IN  /\ outcome \in SecondaryOutcomes(source)
           /\ eLog' = Append(eLog, [source |-> source, id |-> sourceId,
                                    k |-> outcome.k, rec |-> outcome.rec])
           /\ eEnhanced' = IF EnhanceEffect(outcome.k) = "merge"
                           THEN mergeMetadata(eEnhanced, outcome.rec)
                           ELSE eEnhanced
           /\ eIdx' = eIdx + 1
           /\ ePc' = IF eIdx < Len(secondarySources) THEN "enhance" ELSE "merged"
    /\ UNCHANGED <<eAvail, eId, eRaw, ePrimary, eResult>>
    /\ UNCHANGED <<svcVars, callerVars, mergeVars, opVars, sanVars, storeVars, rateVars,
                   netVars>>

\* line 441
EnhReturn ==
    /\ ePc = "merged"
    /\ eResult' = sanitizeMetadata(eEnhanced)
    /\ ePc' = "done"
    /\ UNCHANGED <<eAvail, eId, eRaw, ePrimary, eEnhanced, eIdx, eLog>>
    /\ UNCHANGED <<svcVars, callerVars, mergeVars, opVars, sanVars, storeVars, rateVars,
                   netVars>>

EnhNext ==
    \/ \E p \in 1..Len(eAvail) : \E raw \in PrimaryRecords(eAvail[p]) : EnhPrimary(p, raw)
    \/ EnhAbsent
    \/ \E s \in AdapterNames : \E outcome \in SecondaryOutcomes(s) : EnhStep(outcome)
    \/ EnhReturn

EnhanceSpec == EnhInit /\ [][EnhNext]_vars

(***************************************************************************)
(* Claims about getEnhancedMetadata (EnhanceSpec).                         *)
(***************************************************************************)
\* the secondary records merged so far, in order
MergedRecords == SelectSeq(eLog, LAMBDA e : e.k = "record")

\* the fields merged by the fill alone and holding one value
ScalarFields == {"budget", "overview"}

\* C21: in every record getEnhancedMetadata returns, a scalar field that is not
\* undefined or null in the primary record has the primary's value; and when the
\* primary record of the override store has a populated cast and no budget, and
\* every secondary record merged has an empty cast and a budget, the cast is the
\* override's cast and the budget is that of the first secondary merged.
C21_PrimaryKept ==
    (ePc = "done" /\ eResult # SanNull) =>
        /\ \A f \in ScalarFields : ~IsNullish(f, ePrimary[f]) => eResult[f] = ePrimary[f]
        /\ ( /\ ePrimary.source = "CustomDB"
             /\ eRaw.cast.k = "arr"
             /\ Len(eRaw.cast.a) > 0
             /\ eRaw.budget.k = "absent"
             /\ MergedRecords # <<>>
             /\ \A i \in 1..Len(MergedRecords) :
                   /\ MergedRecords[i].rec.cast = Arr(<<>>)
                   /\ MergedRecords[i].rec.budget.k = "num" )
           => /\ eResult.cast = eRaw.cast
              /\ eResult.budget = MergedRecords[1].rec.budget

\* C21 witness: the override record with its cast and without a budget, enhanced
\* by OMDB's record with an empty cast and the budget 102.
C21_Witness ==
    /\ ePc = "done"
    /\ ePrimary # <<>>
    /\ eRaw = PrimaryOverride("CustomDB")
    /\ Len(MergedRecords) = 1
    /\ MergedRecords[1].rec = SecondaryBudget("OMDB")
    /\ eResult.cast = Arr(<<[id |-> "c1", name |-> "Leo"]>>)
    /\ eResult.budget = Num(102)

\* the adapters queried as secondaries so far, in the order of the calls
QueriedSecondaries == [i \in 1..Len(eLog) |-> eLog[i].source]

\* the record after the first n of the records recs were merged into target
RECURSIVE MergedInto(_, _, _)
MergedInto(target, recs, n) ==
    IF n = 0 THEN target
    ELSE mergeMetadata(MergedInto(target, recs, n - 1), recs[n].rec)

ExternalKeyOf(s) ==
    CASE s = "OMDB" -> "imdb"
      [] s = "TMDB" -> "tmdb"
      [] s = "Wikidata" -> "wikidata"
      [] s = "MovieLens" -> "movieLens"
      [] OTHER -> ""

\* C23: every secondary adapter was called with the primary record's external
\* id for it when the primary record holds one (not undefined, null or empty),
\* and with the caller's identifier otherwise, whatever ids the secondaries
\* merged before it brought.
C23_SecondaryIdFromPrimary ==
    \A i \in 1..Len(eLog) :
        LET key == ExternalKeyOf(eLog[i].source)
            ext == ePrimary.externalIds
            known == /\ key # ""
                     /\ ext.k = "obj"
                     /\ ext.m[key] \notin {Absent, Undef, Null, ""}
        IN  eLog[i].id = IF known THEN ext.m[key] ELSE eId

\* C23 witness: the override record knows an imdb and a tmdb id; OMDB was called
\* with the imdb id and its record, which brings other ids, was merged; YouTube
\* was called with the caller's identifier and TMDB with the tmdb id.
C23_Witness ==
    /\ ePc = "done"
    /\ ePrimary # <<>>
    /\ eRaw = PrimaryOverride("CustomDB")
    /\ eAvail = <<"CustomDB", "OMDB", "YouTube", "TMDB">>
    /\ eLog[1].id = "tt1"
    /\ eLog[1].rec = SecondaryFull("OMDB")
    /\ eLog[2].id = eId
    /\ eLog[3].id = "27205"
    /\ eEnhanced.externalIds.m["imdb"] = "tt-OMDB"

\* the names joined as the source field lists them
RECURSIVE JoinNames(_)
JoinNames(names) ==
    IF Len(names) = 0 THEN ""
    ELSE IF Len(names) = 1 THEN names[1]
    ELSE names[1] \o ", " \o JoinNames(SubSeq(names, 2, Len(names)))

\* the n-th merged secondary record changed a field other than the source field
Contributed(n) ==
    \E f \in Fields \ {"source"} :
        MergedInto(ePrimary, MergedRecords, n)[f] # MergedInto(ePrimary, MergedRecords, n - 1)[f]

\* C24: the source field of the record getEnhancedMetadata returns names the
\* primary adapter and then, in the order of their merges, exactly the secondary
\* adapters whose record changed a field of the record, each once.
C24_SourceListsContributors ==
    (ePc = "done" /\ ePrimary # <<>>) =>
        LET contributors ==
                SelectSeq([n \in 1..Len(MergedRecords) |-> n], LAMBDA n : Contributed(n))
        IN  eResult.source =
                JoinNames(<<ePrimary.source>> \o
                          [j \in 1..Len(contributors) |-> MergedRecords[contributors[j]].source])

\* a value a record holds for field f: not missing, undefined, null or empty
HasValue(f, v) ==
    CASE FieldType(f) = "str" -> v \notin {Absent, Undef, Null}
      [] FieldType(f) = "arr" -> v.k = "arr" /\ Len(v.a) > 0
      [] FieldType(f) = "ext" -> v.k = "obj"
      [] OTHER -> v.k = "num"

\* the merged secondary records that hold a value for field f, in merge order
Suppliers(f) == SelectSeq(MergedRecords, LAMBDA e : HasValue(f, e.rec[f]))

\* field f of the returned record is the value of the first secondary that
\* supplied one, when the primary record held none and two did
FirstSupplierWins(f) ==
    (~HasValue(f, ePrimary[f]) /\ Len(Suppliers(f)) >= 2) => eResult[f] = Suppliers(f)[1].rec[f]

\* C25: in the record getEnhancedMetadata returns, every field that was absent
\* in the primary record and for which two secondary adapters returned a value
\* holds the value of the one that comes first in the available list.
C25_FirstSecondaryWins ==
    (ePc = "done" /\ ePrimary # <<>>) => \A f \in Fields \ {"source"} : FirstSupplierWins(f)

\* the collection fields of the records of getEnhancedMetadata
EnhCollectionFields == {f \in Fields : FieldType(f) = "arr"}

\* C30: the record the secondaries are merged into is the sanitized primary
\* record. A collection the primary adapter's record lacked (no key, undefined
\* or null) is an empty array at merge time, and the returned collection begins
\* with the elements of the first merged secondary that has some; a budget the
\* primary adapter returned as NaN or null is 0 at merge time and 0 in the
\* returned record, whatever the secondaries hold.
C30_PrimarySanitizedBeforeMerge ==
    (ePc = "done" /\ ePrimary # <<>>) =>
        /\ \A f \in EnhCollectionFields :
              eRaw[f].k # "arr" =>
                  /\ ePrimary[f] = Arr(<<>>)
                  /\ Len(Suppliers(f)) >= 1 =>
                        LET first == Suppliers(f)[1].rec[f].a
                        IN  /\ eResult[f].k = "arr"
                            /\ Len(eResult[f].a) >= Len(first)
                            /\ SubSeq(eResult[f].a, 1, Len(first)) = first
        /\ eRaw.budget.k \in {"NaN", "null"} =>
              (ePrimary.budget = Num(0) /\ eResult.budget = Num(0))

\* C30 witness: the primary adapter returned a null budget and no videos; a
\* secondary with a budget and videos has been merged; the returned record has
\* budget 0 and that secondary's videos.
C30_Witness ==
    /\ ePc = "done"
    /\ ePrimary # <<>>
    /\ eRaw.budget.k = "null"
    /\ eRaw.videos.k = "absent"
    /\ Len(Suppliers("budget")) >= 1
    /\ Len(Suppliers("videos")) >= 1
    /\ eResult.budget = Num(0)
    /\ Len(eResult.videos.a) >= 1

====
